---------------------------- MODULE Spec2Model ----------------------------
(***************************************************************************)
(* Ant colony simulation (ml3m/antland).  Modelled sources, under src/:     *)
(*   js/pheromone.js      PheromoneSystem, the two pheromone grids         *)
(*   unnamed/part_004     Ant (the behaviour machine) and AntColony        *)
(*   unnamed/part_001     Food and FoodManager                             *)
(*   js/nest.js           Nest                                             *)
(*   js/utils.js          Vector, MathUtils, ObstacleManager               *)
(*   unnamed/part_000     Simulation (the step of the host loop)           *)
(*   unnamed/part_002     the p5 sketch: draw loop and key handlers        *)
(*   js/ui.js             buttons, sliders and the canvas tools            *)
(*   unnamed/part_003     CONFIG                                           *)
(*                                                                         *)
(* Numbers.  JavaScript Numbers are modelled in fixed point:               *)
(*   pheromone intensity   1.0   = Scale units                             *)
(*   lengths               1 px  = PU units                                *)
(*   angles                1 rad = 1000 units (Pi = 3142)                  *)
(*   energy, food amounts  1.0   = QU units                                *)
(*   Math.random()         [0,1) = 0 .. 999 (thousandths)                  *)
(*   speed multiplier      1.0   = 4 (quarters)                            *)
(* A product or quotient is truncated to the unit (floor).                 *)
(***************************************************************************)
EXTENDS Integers, Sequences, FiniteSets, TLC

VARIABLES
    CONFIG,         \* the mutable parts of the global CONFIG object
    width, height,  \* Simulation.width / Simulation.height (PU)
    cols, rows,     \* PheromoneSystem.cols / rows
    toFoodGrid,     \* PheromoneSystem.toFoodGrid : 0..cols*rows-1 -> intensity
    toNestGrid,     \* PheromoneSystem.toNestGrid
    neighbors,      \* PheromoneSystem.neighbors  : index -> sequence of indices
    ants,           \* AntColony.ants : sequence of ant records
    antIdCounter,   \* AntColony.antIdCounter
    foods,          \* FoodManager.foods : sequence of food records
    obstacles,      \* ObstacleManager.obstacles : sequence of obstacle records
    foodStored,     \* Nest.foodStored (QU)
    time,           \* Simulation.time (1/240 s)
    pc,             \* position inside Simulation.update: "idle" or "ants"
    antIdx,         \* index of the next ant of the loop of AntColony.update
    frames,         \* number of Simulation.update calls so far
    userOps,        \* number of user / API operations so far
    last,           \* history: the last operation and what it saw
    stepLog,        \* history: the calls made by the current Simulation.update
    spatialGrid,    \* Simulation.spatialGrid : a SpatialGrid
    entities        \* the objects handed to the SpatialGrid: position, gridIndex

vars == <<CONFIG, width, height, cols, rows, toFoodGrid, toNestGrid, neighbors,
          ants, antIdCounter, foods, obstacles, foodStored, time, pc, antIdx,
          frames, userOps, last, stepLog, spatialGrid, entities>>

fieldVars == <<cols, rows, toFoodGrid, toNestGrid, neighbors>>
indexVars == <<spatialGrid, entities>>
worldVars == <<width, height, ants, antIdCounter, foods, obstacles, foodStored,
               time, pc, antIdx, frames, stepLog, indexVars>>

-----------------------------------------------------------------------------
(* Units *)

Scale == 1200   \* pheromone units per 1.0 of intensity
PU == 100       \* length units per pixel
QU == 80        \* energy / food units per 1.0
Pi == 3142      \* Math.PI in thousandths of a radian
TwoPi == 2 * Pi

(* Program constants (unnamed/part_003) *)

Resolution == 5 * PU                    \* CONFIG.pheromone.resolution
MaxIntensityPx == 500
maxIntensity == MaxIntensityPx * Scale  \* CONFIG.pheromone.maxIntensity
FadeThresholdPx == 5
threshold == FadeThresholdPx * Scale    \* CONFIG.visualization.pheromoneFadeThreshold
DefaultEvaporation == 995               \* evaporationRate 0.995, in thousandths
DefaultDiffusion == 10                  \* diffusionRate 0.1, in hundredths
DefaultStrength == 100                  \* CONFIG.pheromone.*.strength

Min(a, b) == IF a < b THEN a ELSE b
Max(a, b) == IF a > b THEN a ELSE b
Abs(a) == IF a < 0 THEN -a ELSE a

\* Math.ceil(a / b) for a >= 0, b > 0
CeilDiv(a, b) == (a + b - 1) \div b

RECURSIVE SumSeq(_)
SumSeq(s) == IF s = << >> THEN 0 ELSE Head(s) + SumSeq(Tail(s))

\* sum of all cells of a grid (a function on 0..n-1)
RECURSIVE SumUpTo(_, _)
SumUpTo(g, n) == IF n = 0 THEN 0 ELSE g[n - 1] + SumUpTo(g, n - 1)
GridSum(g) == SumUpTo(g, Cardinality(DOMAIN g))

-----------------------------------------------------------------------------
(* Math.sin, Math.cos, Math.atan2 in fixed point *)

\* sin on [0, Pi] by Bhaskara's formula 16p / (5 Pi^2 - 4p), p = x (Pi - x)
SinHalf(x) ==
    LET p == x * (Pi - x)
    IN  (16 * p) \div ((5 * Pi * Pi - 4 * p) \div 1000)

Sin(a) ==
    LET x == a % TwoPi
    IN  IF x <= Pi THEN SinHalf(x) ELSE -SinHalf(x - Pi)

Cos(a) == Sin(a + Pi \div 2)

\* atan of a / b for 0 <= a <= b, b > 0
AtanUnit(a, b) ==
    LET z == (a * 1000) \div b
    IN  (z * (785 + (273 * (1000 - z)) \div 1000)) \div 1000

\* Math.atan2(y, x), in (-Pi, Pi]
Atan2(y, x) ==
    LET ax == Abs(x)
        ay == Abs(y)
        base == IF ax = 0 /\ ay = 0 THEN 0
                ELSE IF ay <= ax THEN AtanUnit(ay, ax)
                ELSE Pi \div 2 - AtanUnit(ax, ay)
    IN  IF x >= 0 THEN (IF y >= 0 THEN base ELSE -base)
        ELSE (IF y >= 0 THEN Pi - base ELSE base - Pi)

\* Math.sqrt truncated: the largest r with r * r <= n
RECURSIVE SqrtSearch(_, _, _)
SqrtSearch(n, lo, hi) ==
    IF lo >= hi THEN lo
    ELSE LET mid == (lo + hi + 1) \div 2
         IN  IF mid * mid <= n THEN SqrtSearch(n, mid, hi)
             ELSE SqrtSearch(n, lo, mid - 1)
Sqrt(n) == SqrtSearch(n, 0, Min(n, 46340))

-----------------------------------------------------------------------------
(* PheromoneSystem (js/pheromone.js) *)

\* the indices produced by one row y of the double loop of getNeighborIndices
NeighborRow(c, r, col, row, y) ==
    LET cell(x) ==
            IF (x = 0 /\ y = 0) \/ col + x < 0 \/ col + x >= c
               \/ row + y < 0 \/ row + y >= r
            THEN << >>
            ELSE << (row + y) * c + (col + x) >>
    IN  cell(-1) \o cell(0) \o cell(1)

getNeighborIndices(c, r, col, row) ==
    NeighborRow(c, r, col, row, -1) \o NeighborRow(c, r, col, row, 0)
        \o NeighborRow(c, r, col, row, 1)

\* the neighbour table built by the constructor and by resize
NeighborTable(c, r) ==
    [i \in 0 .. c * r - 1 |-> getNeighborIndices(c, r, i % c, i \div c)]

\* a posToIndex that moves an outside position to the nearest cell
posToIndexClamped(c, r, position) ==
    Min(Max(position.y \div Resolution, 0), r - 1) * c
        + Min(Max(position.x \div Resolution, 0), c - 1)

\* posToIndex(position): -1 outside the grid
posToIndex(c, r, position) ==
    LET col == position.x \div Resolution
        row == position.y \div Resolution
    IN  IF col < 0 \/ col >= c \/ row < 0 \/ row >= r THEN -1
        ELSE row * c + col

\* a deposit without the cap at maxIntensity
depositUncapped(grid, c, r, position, amount) ==
    LET index == posToIndex(c, r, position)
    IN  IF index # -1 THEN [grid EXCEPT ![index] = grid[index] + amount]
        ELSE grid

\* deposit(grid, position, amount)
deposit(grid, c, r, position, amount) ==
    LET index == posToIndex(c, r, position)
    IN  IF index # -1
        THEN [grid EXCEPT ![index] = Min(grid[index] + amount, maxIntensity)]
        ELSE grid

getPheromoneAt(grid, c, r, position) ==
    LET index == posToIndex(c, r, position)
    IN  IF index # -1 THEN grid[index] ELSE 0

\* the three sample points of sensePheromone
SensorPoint(position, angle, sensorDistance) ==
    [x |-> position.x + (Cos(angle) * sensorDistance) \div 1000,
     y |-> position.y + (Sin(angle) * sensorDistance) \div 1000]

sensePheromone(grid, c, r, position, angle, sensorAngle, sensorDistance) ==
    [forward |-> getPheromoneAt(grid, c, r,
                     SensorPoint(position, angle, sensorDistance)),
     left    |-> getPheromoneAt(grid, c, r,
                     SensorPoint(position, angle - sensorAngle, sensorDistance)),
     right   |-> getPheromoneAt(grid, c, r,
                     SensorPoint(position, angle + sensorAngle, sensorDistance))]

\* an evaporation that never snaps to 0
EvaporateNoSnap(value, rate) == (value * rate) \div 1000

\* an evaporation that leaves the value as it is
EvaporateNothing(value, rate) == value

\* value *= evaporationRate; if (value < threshold) value = 0
Evaporate(value, rate) ==
    LET v == (value * rate) \div 1000
    IN  IF v < threshold THEN 0 ELSE v

\* a diffusion amount of the wrong sign: the source gains what it should give
DiffAmountNegated(value, rate, n) == 0 - (value * rate) \div (100 * n)

\* value * diffusionRate / neighbors.length
DiffAmount(value, rate, n) == (value * rate) \div (100 * n)

\* the loop "for (const neighborIdx of neighbors)" of update(), from the k-th
\* neighbour on; st = [f |-> toFoodNext, n |-> toNestNext]
RECURSIVE DiffuseLoop(_, _, _, _, _, _, _, _)
DiffuseLoop(st, i, nbrs, k, fv, nv, fRate, nRate) ==
    IF k > Len(nbrs) THEN st
    ELSE LET nb == nbrs[k]
             fd == DiffAmount(fv, fRate, Len(nbrs))
             nd == DiffAmount(nv, nRate, Len(nbrs))
             f1 == IF fv > threshold
                   THEN [st.f EXCEPT ![nb] = @ + fd, ![i] = @ - fd]
                   ELSE st.f
             n1 == IF nv > threshold
                   THEN [st.n EXCEPT ![nb] = @ + nd, ![i] = @ - nd]
                   ELSE st.n
         IN  DiffuseLoop([f |-> f1, n |-> n1], i, nbrs, k + 1, fv, nv, fRate, nRate)

\* one iteration of the loop over the cells of update()
UpdateCell(st, food, nest, nbrTable, i, cfg) ==
    LET fEvap == food[i] > threshold
        fv == IF fEvap THEN Evaporate(food[i], cfg.toFood.evaporationRate)
              ELSE food[i]
        nEvap == nest[i] > threshold
        nv == IF nEvap THEN Evaporate(nest[i], cfg.toNest.evaporationRate)
              ELSE nest[i]
        st1 == [f |-> IF fEvap THEN [st.f EXCEPT ![i] = fv] ELSE st.f,
                n |-> IF nEvap THEN [st.n EXCEPT ![i] = nv] ELSE st.n]
    IN  IF fv > threshold \/ nv > threshold
        THEN DiffuseLoop(st1, i, nbrTable[i], 1, fv, nv,
                         cfg.toFood.diffusionRate, cfg.toNest.diffusionRate)
        ELSE st1

\* the loop "for (let i = lo; i < hi; i++)" of update(), cells in increasing
\* order.  The range is split in halves, and the second half starts from the
\* value of the first: the set of that one value makes TLC evaluate the first
\* half once, before the second half starts, wherever the loop is evaluated.
RECURSIVE UpdateLoop(_, _, _, _, _, _, _)
UpdateLoop(st, food, nest, nbrTable, lo, hi, cfg) ==
    IF lo >= hi THEN st
    ELSE IF hi = lo + 1
    THEN CHOOSE next \in {UpdateCell(s, food, nest, nbrTable, lo, cfg) : s \in {st}} :
             TRUE
    ELSE LET mid == (lo + hi) \div 2
         IN  CHOOSE next \in {UpdateLoop(first, food, nest, nbrTable, mid, hi, cfg) :
                                 first \in {UpdateLoop(st, food, nest, nbrTable,
                                                       lo, mid, cfg)}} : TRUE

\* PheromoneSystem.update(): the new [f |-> toFoodGrid, n |-> toNestGrid]
PheromoneUpdate(food, nest, nbrTable, cfg) ==
    UpdateLoop([f |-> food, n |-> nest], food, nest, nbrTable, 0,
               Cardinality(DOMAIN food), cfg)

\* an update() that goes on while the simulation is paused
updateWhilePaused(food, nest, nbrTable, cfg) ==
    PheromoneUpdate(food, nest, nbrTable, cfg.pheromone)

\* update() from its first line: nothing while the simulation is paused
update(food, nest, nbrTable, cfg) ==
    IF cfg.simulation.paused THEN [f |-> food, n |-> nest]
    ELSE PheromoneUpdate(food, nest, nbrTable, cfg.pheromone)

ZeroGrid(c, r) == [i \in 0 .. c * r - 1 |-> 0]

\* a resize that copies by flat index instead of by (col, row)
ResizeGridFlat(grid, oldCols, oldRows, newCols, newRows) ==
    [i \in 0 .. newCols * newRows - 1 |->
        IF i < oldCols * oldRows THEN grid[i] ELSE 0]

\* the copy loop of resize(): old values at matching (col, row), 0 elsewhere
ResizeGrid(grid, oldCols, oldRows, newCols, newRows) ==
    [i \in 0 .. newCols * newRows - 1 |->
        LET col == i % newCols
            row == i \div newCols
        IN  IF row < Min(oldRows, newRows) /\ col < Min(oldCols, newCols)
            THEN grid[row * oldCols + col]
            ELSE 0]


-----------------------------------------------------------------------------
(* SpatialGrid (js/utils.js) *)

SpatialGridSizePx == 20
SpatialGridSize == SpatialGridSizePx * PU   \* CONFIG.simulation.spatialGridSize

\* the value undefined of entity.gridIndex
Undefined == 0 - 2

\* new SpatialGrid(width, height, cellSize), for a cellSize > 0: a sequence of
\* entities per cell
NewSpatialGrid(w, h, cellSize) ==
    [cellSize |-> cellSize,
     cols |-> CeilDiv(w, cellSize),
     rows |-> CeilDiv(h, cellSize),
     grid |-> [i \in 0 .. CeilDiv(w, cellSize) * CeilDiv(h, cellSize) - 1 |-> << >>]]

\* SpatialGrid.posToIndex(position): the cell index, -1 outside the grid
spatialPosToIndex(g, position) ==
    LET col == position.x \div g.cellSize
        row == position.y \div g.cellSize
    IN  IF col < 0 \/ col >= g.cols \/ row < 0 \/ row >= g.rows
        THEN -1
        ELSE row * g.cols + col

\* SpatialGrid.insert(entity); entity k of es
insert(g, es, k) ==
    LET index == spatialPosToIndex(g, es[k].position)
    IN  IF index # -1
        THEN [grid |-> [g EXCEPT !.grid[index] = Append(@, k)],
              entities |-> [es EXCEPT ![k].gridIndex = index]]
        ELSE [grid |-> g, entities |-> es]

\* cell.indexOf(entity) (1-based, 0: absent) and cell.splice(index, 1)
RECURSIVE indexOf(_, _, _)
indexOf(cell, k, i) ==
    IF i > Len(cell) THEN 0
    ELSE IF cell[i] = k THEN i
    ELSE indexOf(cell, k, i + 1)

splice(cell, i) ==
    [j \in 1 .. Len(cell) - 1 |-> IF j < i THEN cell[j] ELSE cell[j + 1]]

\* SpatialGrid.remove(entity)
remove(g, es, k) ==
    IF es[k].gridIndex # Undefined /\ es[k].gridIndex # -1
    THEN LET cell == g.grid[es[k].gridIndex]
             index == indexOf(cell, k, 1)
         IN  [grid |-> IF index # 0
                       THEN [g EXCEPT !.grid[es[k].gridIndex] = splice(cell, index)]
                       ELSE g,
              entities |-> [es EXCEPT ![k].gridIndex = Undefined]]
    ELSE [grid |-> g, entities |-> es]

\* SpatialGrid.update(entity)
spatialUpdate(g, es, k) ==
    LET newIndex == spatialPosToIndex(g, es[k].position)
        r == remove(g, es, k)
    IN  IF newIndex = es[k].gridIndex THEN [grid |-> g, entities |-> es]
        ELSE IF newIndex # -1
        THEN [grid |-> [r.grid EXCEPT !.grid[newIndex] = Append(@, k)],
              entities |-> [r.entities EXCEPT ![k].gridIndex = newIndex]]
        ELSE r

\* SpatialGrid.clear()
spatialClear(g) == [g EXCEPT !.grid = [i \in DOMAIN g.grid |-> << >>]]

\* the loop of queryRadius over the cells minRow..maxRow x minCol..maxCol
RECURSIVE QueryCells(_, _, _, _, _, _)
QueryCells(g, row, col, minCol, maxCol, maxRow) ==
    IF row > maxRow THEN << >>
    ELSE IF col > maxCol THEN QueryCells(g, row + 1, minCol, minCol, maxCol, maxRow)
    ELSE g.grid[row * g.cols + col]
             \o QueryCells(g, row, col + 1, minCol, maxCol, maxRow)

\* SpatialGrid.queryRadius(position, radius)
queryRadius(g, position, radius) ==
    LET minCol == Max(0, (position.x - radius) \div g.cellSize)
        maxCol == Min(g.cols - 1, (position.x + radius) \div g.cellSize)
        minRow == Max(0, (position.y - radius) \div g.cellSize)
        maxRow == Min(g.rows - 1, (position.y + radius) \div g.cellSize)
    IN  QueryCells(g, minRow, minCol, minCol, maxCol, maxRow)

-----------------------------------------------------------------------------
(* The mutable configuration (unnamed/part_003) *)

\* speedMultiplier is in quarters (4 = 1.0), evaporationRate in thousandths,
\* diffusionRate in hundredths
ConfigWith(evaporation, diffusion, count) ==
    [simulation |-> [paused |-> FALSE, speedMultiplier |-> 4],
     ant        |-> [count |-> count],
     pheromone  |-> [toFood |-> [strength |-> DefaultStrength,
                                 evaporationRate |-> evaporation,
                                 diffusionRate |-> diffusion],
                     toNest |-> [strength |-> DefaultStrength,
                                 evaporationRate |-> evaporation,
                                 diffusionRate |-> diffusion]]]

NoLast == [op |-> "none"]

-----------------------------------------------------------------------------
(* SpecField: the PheromoneSystem driven through its own interface *)

MaxFieldOps == 2    \* operations per run

\* arena sizes (px) the field is constructed with or resized to
FieldSizes == {<<5, 10>>, <<15, 10>>, <<15, 15>>}

\* positions handed to deposit and sensePheromone (px): inside the grid,
\* left of it, and right of / below small grids
FieldPositions ==
    {[x |-> 2 * PU, y |-> 2 * PU], [x |-> 7 * PU, y |-> 7 * PU],
     [x |-> 12 * PU, y |-> 2 * PU], [x |-> -3 * PU, y |-> 2 * PU],
     [x |-> 2 * PU, y |-> 12 * PU]}

\* deposit amounts: just below the threshold (threshold * 0.99), just above it
\* (5.01), and the maximum
BelowThreshold == (threshold * 99) \div 100
FieldAmounts == {BelowThreshold, threshold + Scale \div 100, maxIntensity}

\* what every cell of toFoodGrid holds when a field run starts
FieldFills == {0, BelowThreshold, maxIntensity}

FieldAngles == {0, Pi \div 2}
FieldSensorDistance == 5 * PU
FieldSensorAngle == Pi \div 4

\* rates of the field runs: the default configuration, and evaporation rate 1
FieldEvaporations == {DefaultEvaporation, 1000}

FieldInit ==
    /\ \E size \in FieldSizes, fill \in FieldFills, ev \in FieldEvaporations :
          /\ width = size[1] * PU
          /\ height = size[2] * PU
          /\ cols = CeilDiv(size[1] * PU, Resolution)
          /\ rows = CeilDiv(size[2] * PU, Resolution)
          /\ toFoodGrid = [i \in 0 .. cols * rows - 1 |-> fill]
          /\ toNestGrid = ZeroGrid(cols, rows)
          /\ neighbors = NeighborTable(cols, rows)
          /\ CONFIG = ConfigWith(ev, DefaultDiffusion, 0)
    /\ ants = << >>
    /\ antIdCounter = 0
    /\ foods = << >>
    /\ obstacles = << >>
    /\ foodStored = 0
    /\ time = 0
    /\ pc = "idle"
    /\ antIdx = 0
    /\ frames = 0
    /\ userOps = 0
    /\ last = NoLast
    /\ stepLog = << >>
    /\ spatialGrid = NewSpatialGrid(width, height, SpatialGridSize)
    /\ entities = << >>

\* every record of a field operation remembers the state before it
FieldLast(op, channel, position, amount, angle, result) ==
    [op |-> op, channel |-> channel, position |-> position, amount |-> amount,
     angle |-> angle, result |-> result,
     preFood |-> toFoodGrid, preNest |-> toNestGrid,
     preCols |-> cols, preRows |-> rows]

NoPosition == [x |-> 0, y |-> 0]
NoSense == [forward |-> 0, left |-> 0, right |-> 0]

\* depositToFood(position, amount) / depositToNest(position, amount)
FieldDeposit ==
    /\ userOps < MaxFieldOps
    /\ \E channel \in {"toFood", "toNest"}, position \in FieldPositions,
          amount \in FieldAmounts :
          /\ toFoodGrid' = IF channel = "toFood"
                           THEN deposit(toFoodGrid, cols, rows, position, amount)
                           ELSE toFoodGrid
          /\ toNestGrid' = IF channel = "toNest"
                           THEN deposit(toNestGrid, cols, rows, position, amount)
                           ELSE toNestGrid
          /\ last' = FieldLast("deposit", channel, position, amount, 0, NoSense)
    /\ userOps' = userOps + 1
    /\ UNCHANGED <<CONFIG, cols, rows, neighbors, worldVars>>

\* sensePheromone(grid, position, angle, sensorAngle, sensorDistance)
FieldSense ==
    /\ userOps < MaxFieldOps
    /\ \E channel \in {"toFood", "toNest"}, position \in FieldPositions,
          angle \in FieldAngles :
          last' = FieldLast("sense", channel, position, 0, angle,
                      sensePheromone(IF channel = "toFood" THEN toFoodGrid
                                     ELSE toNestGrid,
                                     cols, rows, position, angle,
                                     FieldSensorAngle, FieldSensorDistance))
    /\ userOps' = userOps + 1
    /\ UNCHANGED <<CONFIG, fieldVars, worldVars>>

\* update()
FieldUpdate ==
    /\ userOps < MaxFieldOps
    /\ \E next \in {update(toFoodGrid, toNestGrid, neighbors, CONFIG)} :
          /\ toFoodGrid' = next.f
          /\ toNestGrid' = next.n
    /\ last' = FieldLast("update", "both", NoPosition, 0, 0, NoSense)
    /\ userOps' = userOps + 1
    /\ UNCHANGED <<CONFIG, cols, rows, neighbors, worldVars>>

\* clear()
FieldClear ==
    /\ userOps < MaxFieldOps
    /\ toFoodGrid' = [i \in DOMAIN toFoodGrid |-> 0]
    /\ toNestGrid' = [i \in DOMAIN toNestGrid |-> 0]
    /\ last' = FieldLast("clear", "both", NoPosition, 0, 0, NoSense)
    /\ userOps' = userOps + 1
    /\ UNCHANGED <<CONFIG, cols, rows, neighbors, worldVars>>

\* the field part of resize(width, height)
ResizeField(w, h) ==
    LET newCols == CeilDiv(w, Resolution)
        newRows == CeilDiv(h, Resolution)
    IN  /\ cols' = newCols
        /\ rows' = newRows
        /\ toFoodGrid' = ResizeGrid(toFoodGrid, cols, rows, newCols, newRows)
        /\ toNestGrid' = ResizeGrid(toNestGrid, cols, rows, newCols, newRows)
        /\ neighbors' = NeighborTable(newCols, newRows)

\* resize(width, height)
FieldResize ==
    /\ userOps < MaxFieldOps
    /\ \E size \in FieldSizes :
          /\ ResizeField(size[1] * PU, size[2] * PU)
          /\ width' = size[1] * PU
          /\ height' = size[2] * PU
    /\ last' = FieldLast("resize", "both", NoPosition, 0, 0, NoSense)
    /\ userOps' = userOps + 1
    /\ UNCHANGED <<CONFIG, ants, antIdCounter, foods, obstacles, foodStored,
                   time, pc, antIdx, frames, stepLog, indexVars>>

FieldNext ==
    \/ FieldDeposit
    \/ FieldSense
    \/ FieldUpdate
    \/ FieldClear
    \/ FieldResize

SpecField == FieldInit /\ [][FieldNext]_vars

-----------------------------------------------------------------------------
(* SpecGrid: one SpatialGrid and the entities handed to it *)

GridArenaPx == 40   \* width and height of the arena of the runs, in pixels
NumEntities == 2    \* entities of the runs
MaxGridOps == 3     \* operations per run

\* positions an entity takes, in pixels: three cells of the grid, one position
\* left of it and one right of it
GridPositions == {<<10, 10>>, <<30, 10>>, <<30, 30>>, <<-5, 10>>, <<45, 30>>}
QueryPositions == {<<10, 10>>, <<38, 30>>, <<-5, 10>>}
QueryRadii == {0, 10 * PU, 25 * PU}

PointAt(p) == [x |-> p[1] * PU, y |-> p[2] * PU]

\* an entity as its constructor leaves it (gridIndex undefined); called is
\* history: the last SpatialGrid call that concerned the entity
NewEntity(p) == [position |-> PointAt(p), gridIndex |-> Undefined, called |-> "none"]

GridInit ==
    /\ width = GridArenaPx * PU
    /\ height = GridArenaPx * PU
    /\ cols = CeilDiv(width, Resolution)
    /\ rows = CeilDiv(height, Resolution)
    /\ toFoodGrid = ZeroGrid(cols, rows)
    /\ toNestGrid = ZeroGrid(cols, rows)
    /\ neighbors = NeighborTable(cols, rows)
    /\ CONFIG = ConfigWith(DefaultEvaporation, DefaultDiffusion, 0)
    /\ ants = << >>
    /\ antIdCounter = 0
    /\ foods = << >>
    /\ obstacles = << >>
    /\ foodStored = 0
    /\ time = 0
    /\ pc = "idle"
    /\ antIdx = 0
    /\ frames = 0
    /\ userOps = 0
    /\ last = NoLast
    /\ stepLog = << >>
    /\ spatialGrid = NewSpatialGrid(width, height, SpatialGridSize)
    /\ \E ps \in [1 .. NumEntities -> GridPositions] :
          entities = [k \in 1 .. NumEntities |-> NewEntity(ps[k])]

\* what a SpatialGrid call leaves alone
GridFrame ==
    /\ userOps < MaxGridOps
    /\ userOps' = userOps + 1
    /\ UNCHANGED <<CONFIG, fieldVars, width, height, ants, antIdCounter, foods,
                   obstacles, foodStored, time, pc, antIdx, frames, stepLog>>

\* the entity moves to a position, then insert(entity)
GridInsert ==
    /\ GridFrame
    /\ \E k \in DOMAIN entities, p \in GridPositions :
          \E r \in {insert(spatialGrid,
                           [entities EXCEPT ![k].position = PointAt(p)], k)} :
              /\ spatialGrid' = r.grid
              /\ entities' = [r.entities EXCEPT ![k].called = "insert"]
              /\ last' = [op |-> "insert", entity |-> k, pre |-> entities[k]]

\* remove(entity)
GridRemove ==
    /\ GridFrame
    /\ \E k \in DOMAIN entities :
          \E r \in {remove(spatialGrid, entities, k)} :
              /\ spatialGrid' = r.grid
              /\ entities' = [r.entities EXCEPT ![k].called = "remove"]
              /\ last' = [op |-> "remove", entity |-> k, pre |-> entities[k]]

\* the entity moves to a position, then update(entity)
GridUpdate ==
    /\ GridFrame
    /\ \E k \in DOMAIN entities, p \in GridPositions :
          \E r \in {spatialUpdate(spatialGrid,
                                  [entities EXCEPT ![k].position = PointAt(p)], k)} :
              /\ spatialGrid' = r.grid
              /\ entities' = [r.entities EXCEPT ![k].called = "update"]
              /\ last' = [op |-> "update", entity |-> k, pre |-> entities[k]]

\* clear()
GridClear ==
    /\ GridFrame
    /\ spatialGrid' = spatialClear(spatialGrid)
    /\ entities' = [k \in DOMAIN entities |-> [entities[k] EXCEPT !.called = "clear"]]
    /\ last' = [op |-> "clear"]

\* queryRadius(position, radius)
GridQuery ==
    /\ GridFrame
    /\ \E p \in QueryPositions, radius \in QueryRadii :
          last' = [op |-> "query", position |-> PointAt(p), radius |-> radius,
                   result |-> queryRadius(spatialGrid, PointAt(p), radius)]
    /\ UNCHANGED indexVars

GridNext ==
    \/ GridInsert
    \/ GridRemove
    \/ GridUpdate
    \/ GridClear
    \/ GridQuery

SpecGrid == GridInit /\ [][GridNext]_vars

-----------------------------------------------------------------------------
(* SpecConstruct: the constructors of PheromoneSystem and SpatialGrid under  *)
(* any configuration                                                        *)

MaxConstructs == 2  \* constructor calls per run

\* Math.ceil(a / b) for a >= 0 and b # 0
JsCeilDiv(a, b) == IF b > 0 THEN CeilDiv(a, b) ELSE 0 - (a \div (0 - b))

\* new PheromoneSystem(width, height, resolution).  With resolution 0 the
\* quotients are Infinity (NaN for a width of 0) and new Array(Infinity) throws
\* a RangeError; with a negative resolution cols and rows are negative, their
\* product is a valid array length and the loops that fill neighbors do not
\* run, so its slots stay undefined.
PheromoneSystemConstructor(w, h, resolution) ==
    IF resolution = 0 THEN [threw |-> "RangeError"]
    ELSE LET c == JsCeilDiv(w, resolution)
             r == JsCeilDiv(h, resolution)
         IN  [threw |-> "none", cols |-> c, rows |-> r,
              toFoodGrid |-> [i \in 0 .. c * r - 1 |-> 0],
              toNestGrid |-> [i \in 0 .. c * r - 1 |-> 0],
              neighbors |-> IF c > 0 /\ r > 0 THEN NeighborTable(c, r)
                            ELSE [i \in 0 .. c * r - 1 |-> Undefined]]

\* new SpatialGrid(width, height, cellSize), in the same way
SpatialGridConstructor(w, h, cellSize) ==
    IF cellSize = 0 THEN [threw |-> "RangeError"]
    ELSE LET c == JsCeilDiv(w, cellSize)
             r == JsCeilDiv(h, cellSize)
         IN  [threw |-> "none",
              grid |-> [cellSize |-> cellSize, cols |-> c, rows |-> r,
                        grid |-> [i \in 0 .. c * r - 1 |-> << >>]]]

ConstructResolutions == {0 - Resolution, 0, Resolution}
ConstructCellSizes == {0 - SpatialGridSize, 0, SpatialGridSize}
ConstructEvaporations == {0 - DefaultEvaporation, DefaultEvaporation}
ConstructDiffusions == {0 - DefaultDiffusion, DefaultDiffusion}

\* before any construction: Simulation.pheromoneSystem and
\* Simulation.spatialGrid are null
ConstructInit ==
    /\ width = 0
    /\ height = 0
    /\ cols = 0
    /\ rows = 0
    /\ toFoodGrid = << >>
    /\ toNestGrid = << >>
    /\ neighbors = << >>
    /\ CONFIG = ConfigWith(DefaultEvaporation, DefaultDiffusion, 0)
    /\ ants = << >>
    /\ antIdCounter = 0
    /\ foods = << >>
    /\ obstacles = << >>
    /\ foodStored = 0
    /\ time = 0
    /\ pc = "idle"
    /\ antIdx = 0
    /\ frames = 0
    /\ userOps = 0
    /\ last = NoLast
    /\ stepLog = << >>
    /\ spatialGrid = [cellSize |-> 0, cols |-> 0, rows |-> 0, grid |-> << >>]
    /\ entities = << >>

\* new PheromoneSystem(width, height, CONFIG.pheromone.resolution) under a
\* configuration with the given rates
ConstructField ==
    /\ userOps < MaxConstructs
    /\ userOps' = userOps + 1
    /\ \E size \in FieldSizes, resolution \in ConstructResolutions,
          ev \in ConstructEvaporations, df \in ConstructDiffusions :
          \E new \in {PheromoneSystemConstructor(size[1] * PU, size[2] * PU,
                                                 resolution)} :
              /\ CONFIG' = ConfigWith(ev, df, 0)
              /\ width' = size[1] * PU
              /\ height' = size[2] * PU
              /\ last' = [op |-> "PheromoneSystem", resolution |-> resolution,
                          evaporation |-> ev, diffusion |-> df,
                          threw |-> new.threw]
              /\ IF new.threw = "none"
                 THEN /\ cols' = new.cols
                      /\ rows' = new.rows
                      /\ toFoodGrid' = new.toFoodGrid
                      /\ toNestGrid' = new.toNestGrid
                      /\ neighbors' = new.neighbors
                 ELSE UNCHANGED fieldVars
    /\ UNCHANGED <<ants, antIdCounter, foods, obstacles, foodStored, time, pc,
                   antIdx, frames, stepLog, indexVars>>

\* new SpatialGrid(width, height, CONFIG.simulation.spatialGridSize)
ConstructIndex ==
    /\ userOps < MaxConstructs
    /\ userOps' = userOps + 1
    /\ \E size \in FieldSizes, cellSize \in ConstructCellSizes :
          \E new \in {SpatialGridConstructor(size[1] * PU, size[2] * PU,
                                             cellSize)} :
              /\ width' = size[1] * PU
              /\ height' = size[2] * PU
              /\ last' = [op |-> "SpatialGrid", cellSize |-> cellSize,
                          threw |-> new.threw]
              /\ spatialGrid' = IF new.threw = "none" THEN new.grid
                                ELSE spatialGrid
    /\ UNCHANGED <<CONFIG, fieldVars, ants, antIdCounter, foods, obstacles,
                   foodStored, time, pc, antIdx, frames, stepLog, entities>>

ConstructNext ==
    \/ ConstructField
    \/ ConstructIndex

SpecConstruct == ConstructInit /\ [][ConstructNext]_vars

-----------------------------------------------------------------------------
(* Program constants of the world (unnamed/part_003, unnamed/part_004) *)

NestSizePx == 30
NestSize == NestSizePx * PU                 \* CONFIG.nest.size
AntSizePx == 3
AntSize == AntSizePx * PU                   \* CONFIG.ant.size
AntSpeedPx == 2
AntSpeed == AntSpeedPx * PU                 \* CONFIG.ant.speed
TurnSpeed == 150                            \* CONFIG.ant.turnSpeed (0.15 rad)
SensorAngle == Pi \div 4                    \* CONFIG.ant.sensorAngle
SensorDistancePx == 15
SensorDistance == SensorDistancePx * PU     \* CONFIG.ant.sensorDistance
ExplorationRate == 100                      \* CONFIG.ant.explorationRate (0.1)
ReturnHomeBias == 500                       \* CONFIG.ant.returnHomeBias (0.5)
SpawnRate == 500                            \* CONFIG.ant.spawnRate (0.5)
CarrierSpeed == 7                           \* CONFIG.ant.carrierSpeed (0.7), tenths
EnergyCapacityUnits == 100
EnergyCapacity == EnergyCapacityUnits * QU  \* CONFIG.ant.energyCapacity
EnergyConsumption == (5 * QU) \div 100      \* CONFIG.ant.energyConsumption (0.05)
RespawnRate == (5 * QU) \div 100            \* CONFIG.food.respawnRate (0.05)
BoundBufferPx == 10
BoundBuffer == BoundBufferPx * PU           \* buffer of Ant.boundPosition
DepositionInterval == 2                     \* Ant.depositionInterval
ToolFoodAmountUnits == 125
ToolFoodAmount == ToolFoodAmountUnits * QU  \* Simulation.toolFoodAmount
ToolObstacleSizePx == 65
ToolObstacleSize == ToolObstacleSizePx * PU \* Simulation.toolObstacleSize

(* Bounds of the world runs *)

ArenaWidthPx == 140     \* CONFIG.canvas.width of the runs
ArenaHeightPx == 40     \* CONFIG.canvas.height of the runs
InitialCount == 2       \* CONFIG.ant.count of the runs
MaxCount == 2           \* CONFIG.ant.maxCount of the runs
MaxFrames == 2          \* calls of Simulation.update per run
MaxUserOps == 1         \* user actions per run

\* values of Math.random(), in thousandths
Randoms == {0, 500}

\* the three Math.random() values an Ant constructor draws
\* (angle, distance, direction)
AntDraws == {<<0, 0, 0>>, <<500, 500, 500>>}

\* how far into their lives the ants of a run are when it starts: the energy
\* left and the frames since the last deposit
InitAges == {<<EnergyCapacity, 0>>, <<EnergyConsumption, 1>>,
             <<2 * EnergyConsumption, 1>>}

\* where the user clicks with the food tool and with the obstacle tool (px)
FoodClicks == {<<70, 20>>, <<125, 20>>}
ObstacleClicks == {<<140, 20>>}

\* arena sizes the window is resized to (px)
ResizeSizes == {<<100, 40>>}

\* Nest.position: the centre of the arena at initialisation
nestPosition == [x |-> (ArenaWidthPx * PU) \div 2, y |-> (ArenaHeightPx * PU) \div 2]

-----------------------------------------------------------------------------
(* Vector and MathUtils (js/utils.js) *)

\* Vector.distance / Vector.magnitude
Magnitude(vx, vy) == Sqrt(vx * vx + vy * vy)
Distance(a, b) == Magnitude(a.x - b.x, a.y - b.y)

\* Vector.normalize, components in thousandths
Normalize(vx, vy) ==
    LET mag == Magnitude(vx, vy)
    IN  IF mag = 0 THEN [x |-> 0, y |-> 0]
        ELSE [x |-> (vx * 1000) \div mag, y |-> (vy * 1000) \div mag]

\* the JavaScript remainder a % m (sign of the dividend)
JsMod(a, m) == IF a >= 0 THEN a % m ELSE -((-a) % m)

Sign(a) == IF a > 0 THEN 1 ELSE IF a < 0 THEN -1 ELSE 0

\* MathUtils.angleDiff(a, b)
angleDiff(a, b) ==
    LET d0 == JsMod(b - a, TwoPi)
        d1 == IF d0 > Pi THEN d0 - TwoPi ELSE d0
    IN  IF d1 < -Pi THEN d1 + TwoPi ELSE d1

-----------------------------------------------------------------------------
(* Food and FoodManager (unnamed/part_001) *)

\* displayRadius = Math.sqrt(quantity) * size * 0.25, with CONFIG.food.size = 4
DisplayRadius(quantity) == Sqrt((quantity * PU * PU) \div QU)

NewFood(x, y, quantity) ==
    [position |-> [x |-> x, y |-> y], quantity |-> quantity,
     initialQuantity |-> quantity, depleted |-> FALSE]

\* Food.canCollect(antPosition)
canCollect(food, antPosition) ==
    /\ ~food.depleted
    /\ Distance(food.position, antPosition) < DisplayRadius(food.quantity) + AntSize

\* FoodManager.canAntCollectFood(ant): the index of the first food the ant can
\* collect from, 0 for null
RECURSIVE FirstCollectable(_, _, _)
FirstCollectable(fs, antPosition, k) ==
    IF k > Len(fs) THEN 0
    ELSE IF canCollect(fs[k], antPosition) THEN k
    ELSE FirstCollectable(fs, antPosition, k + 1)
canAntCollectFood(fs, antPosition) == FirstCollectable(fs, antPosition, 1)

\* a take that grants what was asked for
takeRequested(food, amount) ==
    LET q == food.quantity - amount
    IN  [granted |-> amount,
         food |-> [food EXCEPT !.quantity = q,
                               !.depleted = IF q <= 0 THEN TRUE ELSE @]]

\* Food.take(amount): the amount granted and the food afterwards
take(food, amount) ==
    LET granted == Min(amount, food.quantity)
        q == food.quantity - granted
    IN  [granted |-> granted,
         food |-> [food EXCEPT !.quantity = q,
                               !.depleted = IF q <= 0 THEN TRUE ELSE @]]

\* Food.update(): respawn (CONFIG.food.respawnEnabled is true)
FoodUpdate(food, mult) ==
    IF food.quantity < food.initialQuantity
    THEN [food EXCEPT !.quantity = Min(food.quantity + (RespawnRate * mult) \div 4,
                                       food.initialQuantity),
                      !.depleted = FALSE]
    ELSE food

\* FoodManager.update()
FoodManagerUpdate(fs, cfg) ==
    IF cfg.simulation.paused THEN fs
    ELSE [k \in 1 .. Len(fs) |-> FoodUpdate(fs[k], cfg.simulation.speedMultiplier)]

-----------------------------------------------------------------------------
(* ObstacleManager.calculateAvoidanceForce (js/utils.js) *)

AvoidanceRadius == (SensorDistance * 3) \div 2

\* the loop over the obstacles: [near, x, y], the force in thousandths
RECURSIVE AvoidanceLoop(_, _, _, _)
AvoidanceLoop(obs, antPosition, k, acc) ==
    IF k > Len(obs) THEN acc
    ELSE LET o == obs[k]
             dist == Distance(antPosition, o.position)
             away == Normalize(antPosition.x - o.position.x,
                               antPosition.y - o.position.y)
             forceMagnitude ==
                 Max(0, 1000 - ((dist - o.radius) * 1000) \div AvoidanceRadius)
         IN  IF dist < o.radius + AvoidanceRadius
             THEN AvoidanceLoop(obs, antPosition, k + 1,
                      [near |-> TRUE,
                       x |-> acc.x + (away.x * forceMagnitude * 2) \div 1000,
                       y |-> acc.y + (away.y * forceMagnitude * 2) \div 1000])
             ELSE AvoidanceLoop(obs, antPosition, k + 1, acc)

\* [near |-> FALSE] stands for null
calculateAvoidanceForce(obs, antPosition) ==
    LET f == AvoidanceLoop(obs, antPosition, 1, [near |-> FALSE, x |-> 0, y |-> 0])
        n == Normalize(f.x, f.y)
    IN  [near |-> f.near, x |-> n.x, y |-> n.y]

-----------------------------------------------------------------------------
(* Nest (js/nest.js) *)

\* Nest.contains(position)
contains(position) == Distance(position, nestPosition) < NestSize

-----------------------------------------------------------------------------
(* Ant (unnamed/part_004) *)

\* new Ant(nestPosition, id); d holds the constructor's three Math.random()
\* values
NewAnt(id, d) ==
    LET angle == (d[1] * TwoPi) \div 1000
        distance == (d[2] * ((NestSize * 8) \div 10)) \div 1000
    IN  [id |-> id,
         position |-> [x |-> nestPosition.x + (Cos(angle) * distance) \div 1000,
                       y |-> nestPosition.y + (Sin(angle) * distance) \div 1000],
         direction |-> (d[3] * TwoPi) \div 1000,
         carryingFood |-> 0,
         state |-> "searching",
         energy |-> EnergyCapacity,
         isAlive |-> TRUE,
         lastDepositionTime |-> 0]

\* a calculateDirectionToNest that keeps the current heading
keepDirection(ant) == ant.direction

\* Ant.calculateDirectionToNest()
calculateDirectionToNest(ant) ==
    Atan2(nestPosition.y - ant.position.y, nestPosition.x - ant.position.x)

\* a blend with the weights exchanged: 70% old heading, 30% away-angle
AvoidanceBlendSwapped(ant, force) ==
    (ant.direction * 7 + Atan2(force.y, force.x) * 3) \div 10

\* the blend of the heading with the avoidance direction
AvoidanceBlend(ant, force) ==
    (ant.direction * 3 + Atan2(force.y, force.x) * 7) \div 10

\* a turn that a tie with the other sensors triggers as well
FollowTurnOnTies(sensors) ==
    IF sensors.left >= sensors.forward /\ sensors.left >= sensors.right
    THEN -TurnSpeed
    ELSE IF sensors.right >= sensors.forward /\ sensors.right >= sensors.left
    THEN TurnSpeed
    ELSE 0

\* the turn toward the strongest sensor: left, right, or straight on
FollowTurn(sensors) ==
    IF sensors.left > sensors.forward /\ sensors.left > sensors.right
    THEN -TurnSpeed
    ELSE IF sensors.right > sensors.forward /\ sensors.right > sensors.left
    THEN TurnSpeed
    ELSE 0

MaxSensor(sensors) == Max(sensors.forward, Max(sensors.left, sensors.right))

\* the gradual turn toward the nest, by at most limit
TurnToNest(ant, angleToNest, limit) ==
    LET d == angleDiff(ant.direction, angleToNest)
    IN  Sign(d) * Min(Abs(d), limit)

\* a searchForFood that never explores
searchForFoodNoExploration(ant, fs, obs, food, c, r, r1, r2) ==
    LET k == canAntCollectFood(fs, ant.position)
        t == take(fs[k], QU)
        force == calculateAvoidanceForce(obs, ant.position)
        sensors == sensePheromone(food, c, r, ant.position, ant.direction,
                                  SensorAngle, SensorDistance)
    IN  IF k # 0
        THEN [ant |-> IF t.granted > 0
                      THEN [ant EXCEPT !.carryingFood = t.granted,
                                       !.state = "returning",
                                       !.direction = calculateDirectionToNest(ant)]
                      ELSE [ant EXCEPT !.carryingFood = t.granted],
              foods |-> [fs EXCEPT ![k] = t.food],
              branch |-> "collect", granted |-> t.granted]
        ELSE IF force.near
        THEN [ant |-> [ant EXCEPT !.direction = AvoidanceBlend(ant, force)],
              foods |-> fs, branch |-> "avoid", granted |-> 0]
        ELSE IF MaxSensor(sensors) > threshold
        THEN [ant |-> [ant EXCEPT !.direction = @ + FollowTurn(sensors)],
              foods |-> fs, branch |-> "follow", granted |-> 0]
        ELSE [ant |-> [ant EXCEPT !.direction = @ + ((r2 - 500) * TurnSpeed) \div 1000],
              foods |-> fs, branch |-> "wander", granted |-> 0]

\* Ant.searchForFood(simulation); r1, r2 are the values of Math.random(), in
\* the order of the calls.  The result holds the ant, the foods, the branch
\* taken and the amount Food.take granted.
searchForFood(ant, fs, obs, food, c, r, r1, r2) ==
    LET k == canAntCollectFood(fs, ant.position)
        t == take(fs[k], QU)
        force == calculateAvoidanceForce(obs, ant.position)
        sensors == sensePheromone(food, c, r, ant.position, ant.direction,
                                  SensorAngle, SensorDistance)
    IN  IF k # 0
        THEN [ant |-> IF t.granted > 0
                      THEN [ant EXCEPT !.carryingFood = t.granted,
                                       !.state = "returning",
                                       !.direction = calculateDirectionToNest(ant)]
                      ELSE [ant EXCEPT !.carryingFood = t.granted],
              foods |-> [fs EXCEPT ![k] = t.food],
              branch |-> "collect", granted |-> t.granted]
        ELSE IF force.near
        THEN [ant |-> [ant EXCEPT !.direction = AvoidanceBlend(ant, force)],
              foods |-> fs, branch |-> "avoid", granted |-> 0]
        ELSE IF r1 < ExplorationRate
        THEN [ant |-> [ant EXCEPT !.direction = @ + ((r2 - 500) * TurnSpeed * 2) \div 1000],
              foods |-> fs, branch |-> "explore", granted |-> 0]
        ELSE IF MaxSensor(sensors) > threshold
        THEN [ant |-> [ant EXCEPT !.direction = @ + FollowTurn(sensors)],
              foods |-> fs, branch |-> "follow", granted |-> 0]
        ELSE [ant |-> [ant EXCEPT !.direction = @ + ((r2 - 500) * TurnSpeed) \div 1000],
              foods |-> fs, branch |-> "wander", granted |-> 0]

\* a returnToNest whose arrival forgets to empty the ant
returnToNestKeepsCarry(ant, obs, nest, c, r, r1) ==
    IF contains(ant.position)
    THEN [ant |-> [ant EXCEPT !.state = "searching",
                              !.direction = @ + Pi + ((r1 - 500) * (Pi \div 2)) \div 1000,
                              !.energy = EnergyCapacity],
          stored |-> ant.carryingFood, branch |-> "arrive"]
    ELSE [ant |-> [ant EXCEPT !.direction = calculateDirectionToNest(ant)],
          stored |-> 0, branch |-> "close"]

\* a returnToNest without the arrival at the nest: the ant keeps heading for
\* the centre
returnToNestNoArrival(ant, obs, nest, c, r, r1) ==
    [ant |-> [ant EXCEPT !.direction = calculateDirectionToNest(ant)],
     stored |-> 0, branch |-> "close"]

\* a returnToNest without the shortcut close to the nest
returnToNestNoShortcut(ant, obs, nest, c, r, r1) ==
    LET force == calculateAvoidanceForce(obs, ant.position)
        sensors == sensePheromone(nest, c, r, ant.position, ant.direction,
                                  SensorAngle, SensorDistance)
        angleToNest == calculateDirectionToNest(ant)
    IN  IF contains(ant.position)
        THEN [ant |-> [ant EXCEPT !.carryingFood = 0,
                                  !.state = "searching",
                                  !.direction = @ + Pi + ((r1 - 500) * (Pi \div 2)) \div 1000,
                                  !.energy = EnergyCapacity],
              stored |-> ant.carryingFood, branch |-> "arrive"]
        ELSE IF force.near
        THEN [ant |-> [ant EXCEPT !.direction = AvoidanceBlend(ant, force)],
              stored |-> 0, branch |-> "avoid"]
        ELSE IF r1 < ReturnHomeBias
        THEN [ant |-> [ant EXCEPT !.direction = @ + TurnToNest(ant, angleToNest, TurnSpeed)],
              stored |-> 0, branch |-> "homing"]
        ELSE IF MaxSensor(sensors) > threshold
        THEN [ant |-> [ant EXCEPT !.direction = @ + FollowTurn(sensors)],
              stored |-> 0, branch |-> "follow"]
        ELSE [ant |-> [ant EXCEPT !.direction = @ + TurnToNest(ant, angleToNest, TurnSpeed \div 2)],
              stored |-> 0, branch |-> "homing"]

\* Ant.returnToNest(simulation); the result holds the ant, the food handed to
\* Nest.storeFood and the branch taken
returnToNest(ant, obs, nest, c, r, r1) ==
    LET force == calculateAvoidanceForce(obs, ant.position)
        sensors == sensePheromone(nest, c, r, ant.position, ant.direction,
                                  SensorAngle, SensorDistance)
        distanceToNest == Magnitude(nestPosition.x - ant.position.x,
                                    nestPosition.y - ant.position.y)
        angleToNest == calculateDirectionToNest(ant)
    IN  IF contains(ant.position)
        THEN [ant |-> [ant EXCEPT !.carryingFood = 0,
                                  !.state = "searching",
                                  !.direction = @ + Pi + ((r1 - 500) * (Pi \div 2)) \div 1000,
                                  !.energy = EnergyCapacity],
              stored |-> ant.carryingFood, branch |-> "arrive"]
        ELSE IF force.near
        THEN [ant |-> [ant EXCEPT !.direction = AvoidanceBlend(ant, force)],
              stored |-> 0, branch |-> "avoid"]
        ELSE IF distanceToNest < NestSize * 2
        THEN [ant |-> [ant EXCEPT !.direction = angleToNest],
              stored |-> 0, branch |-> "close"]
        ELSE IF r1 < ReturnHomeBias
        THEN [ant |-> [ant EXCEPT !.direction = @ + TurnToNest(ant, angleToNest, TurnSpeed)],
              stored |-> 0, branch |-> "homing"]
        ELSE IF MaxSensor(sensors) > threshold
        THEN [ant |-> [ant EXCEPT !.direction = @ + FollowTurn(sensors)],
              stored |-> 0, branch |-> "follow"]
        ELSE [ant |-> [ant EXCEPT !.direction = @ + TurnToNest(ant, angleToNest, TurnSpeed \div 2)],
              stored |-> 0, branch |-> "homing"]

\* a boundPosition that clamps the position and leaves the heading alone
boundPositionNoReflection(ant, w, h) ==
    [ant EXCEPT !.position =
        [x |-> Min(Max(ant.position.x, BoundBuffer), w - BoundBuffer),
         y |-> Min(Max(ant.position.y, BoundBuffer), h - BoundBuffer)]]

\* Ant.boundPosition(width, height)
boundPosition(ant, w, h) ==
    LET lowX == ant.position.x < BoundBuffer
        highX == ant.position.x > w - BoundBuffer
        x1 == IF lowX THEN BoundBuffer ELSE IF highX THEN w - BoundBuffer
              ELSE ant.position.x
        d1 == IF lowX \/ highX THEN Pi - ant.direction ELSE ant.direction
        lowY == ant.position.y < BoundBuffer
        highY == ant.position.y > h - BoundBuffer
        y1 == IF lowY THEN BoundBuffer ELSE IF highY THEN h - BoundBuffer
              ELSE ant.position.y
        d2 == IF lowY \/ highY THEN -d1 ELSE d1
    IN  [ant EXCEPT !.position = [x |-> x1, y |-> y1], !.direction = d2]

\* the movement of Ant.update: one step along the heading
Move(ant, mult) ==
    LET s0 == IF ant.carryingFood > 0 THEN (AntSpeed * CarrierSpeed) \div 10
              ELSE AntSpeed
        currentSpeed == (s0 * mult) \div 4
    IN  [ant EXCEPT !.position = [x |-> @.x + (Cos(ant.direction) * currentSpeed) \div 1000,
                                  y |-> @.y + (Sin(ant.direction) * currentSpeed) \div 1000]]

\* a depositPheromones that deposits on every tick
depositPheromonesEveryTick(ant, food, nest, c, r, cfg) ==
    IF ant.state = "searching"
    THEN [ant |-> [ant EXCEPT !.lastDepositionTime = 0],
          f |-> food,
          n |-> deposit(nest, c, r, ant.position, cfg.pheromone.toNest.strength * Scale),
          deposited |-> "toNest"]
    ELSE [ant |-> [ant EXCEPT !.lastDepositionTime = 0],
          f |-> deposit(food, c, r, ant.position,
                        (cfg.pheromone.toFood.strength * ant.carryingFood * Scale) \div QU),
          n |-> nest,
          deposited |-> "toFood"]

\* a depositPheromones whose toFood deposit has the plain strength, whatever
\* the ant carries
depositPheromonesPlain(ant, food, nest, c, r, cfg) ==
    IF ant.lastDepositionTime + 1 < DepositionInterval
    THEN [ant |-> [ant EXCEPT !.lastDepositionTime = @ + 1],
          f |-> food, n |-> nest, deposited |-> "none"]
    ELSE IF ant.state = "searching"
    THEN [ant |-> [ant EXCEPT !.lastDepositionTime = 0],
          f |-> food,
          n |-> deposit(nest, c, r, ant.position, cfg.pheromone.toNest.strength * Scale),
          deposited |-> "toNest"]
    ELSE [ant |-> [ant EXCEPT !.lastDepositionTime = 0],
          f |-> deposit(food, c, r, ant.position, cfg.pheromone.toFood.strength * Scale),
          n |-> nest,
          deposited |-> "toFood"]

\* Ant.depositPheromones(simulation): the ant and the two grids afterwards
depositPheromones(ant, food, nest, c, r, cfg) ==
    IF ant.lastDepositionTime + 1 < DepositionInterval
    THEN [ant |-> [ant EXCEPT !.lastDepositionTime = @ + 1],
          f |-> food, n |-> nest, deposited |-> "none"]
    ELSE IF ant.state = "searching"
    THEN [ant |-> [ant EXCEPT !.lastDepositionTime = 0],
          f |-> food,
          n |-> deposit(nest, c, r, ant.position, cfg.pheromone.toNest.strength * Scale),
          deposited |-> "toNest"]
    ELSE [ant |-> [ant EXCEPT !.lastDepositionTime = 0],
          f |-> deposit(food, c, r, ant.position,
                        (cfg.pheromone.toFood.strength * ant.carryingFood * Scale) \div QU),
          n |-> nest,
          deposited |-> "toFood"]

\* what the state's behaviour did, in one shape for both states
SearchOutcome(res) ==
    [ant |-> res.ant, foods |-> res.foods, stored |-> 0,
     granted |-> res.granted, branch |-> res.branch]
ReturnOutcome(res, fs) ==
    [ant |-> res.ant, foods |-> fs, stored |-> res.stored,
     granted |-> 0, branch |-> res.branch]

\* the result of Ant.update from what the behaviour did (out) and what
\* depositPheromones did (dep); logicDirection is the heading the behaviour
\* left, before the movement
UpdateResult(out, dep) ==
    [ant |-> dep.ant, foods |-> out.foods, f |-> dep.f, n |-> dep.n,
     stored |-> out.stored, granted |-> out.granted, branch |-> out.branch,
     logicDirection |-> out.ant.direction]

\* the second half of Ant.update: movement, boundPosition, depositPheromones
MoveAndDeposit(out, food, nest, c, r, w, h, cfg) ==
    UpdateResult(out,
        depositPheromones(
            boundPosition(Move(out.ant, cfg.simulation.speedMultiplier), w, h),
            food, nest, c, r, cfg))

\* a death test that lets an ant live on at energy 0
ExhaustedBelowZero(energy) == energy < 0

\* if (this.energy <= 0)
Exhausted(energy) == energy <= 0

\* an Ant.update whose behaviours sense the other channel: searchForFood
\* the toNest grid, returnToNest the toFood grid
AntUpdateOtherChannel(ant, fs, obs, food, nest, c, r, w, h, cfg, r1, r2) ==
    LET energy == ant.energy - (EnergyConsumption * cfg.simulation.speedMultiplier) \div 4
        a1 == [ant EXCEPT !.energy = energy]
    IN  IF ~ant.isAlive \/ cfg.simulation.paused
        THEN [ant |-> ant, foods |-> fs, f |-> food, n |-> nest, stored |-> 0,
              granted |-> 0, branch |-> "skip", logicDirection |-> ant.direction]
        ELSE IF Exhausted(energy)
        THEN [ant |-> [a1 EXCEPT !.isAlive = FALSE], foods |-> fs, f |-> food,
              n |-> nest, stored |-> 0, granted |-> 0, branch |-> "died",
              logicDirection |-> ant.direction]
        ELSE IF ant.state = "searching"
        THEN MoveAndDeposit(
                 SearchOutcome(searchForFood(a1, fs, obs, nest, c, r, r1, r2)),
                 food, nest, c, r, w, h, cfg)
        ELSE MoveAndDeposit(
                 ReturnOutcome(returnToNest(a1, obs, food, c, r, r1), fs),
                 food, nest, c, r, w, h, cfg)

\* Ant.update(simulation): everything one call changes, with what it did
\* (branch, granted, stored, logicDirection)
AntUpdate(ant, fs, obs, food, nest, c, r, w, h, cfg, r1, r2) ==
    LET energy == ant.energy - (EnergyConsumption * cfg.simulation.speedMultiplier) \div 4
        a1 == [ant EXCEPT !.energy = energy]
    IN  IF ~ant.isAlive \/ cfg.simulation.paused
        THEN [ant |-> ant, foods |-> fs, f |-> food, n |-> nest, stored |-> 0,
              granted |-> 0, branch |-> "skip", logicDirection |-> ant.direction]
        ELSE IF Exhausted(energy)
        THEN [ant |-> [a1 EXCEPT !.isAlive = FALSE], foods |-> fs, f |-> food,
              n |-> nest, stored |-> 0, granted |-> 0, branch |-> "died",
              logicDirection |-> ant.direction]
        ELSE IF ant.state = "searching"
        THEN MoveAndDeposit(
                 SearchOutcome(searchForFood(a1, fs, obs, food, c, r, r1, r2)),
                 food, nest, c, r, w, h, cfg)
        ELSE MoveAndDeposit(
                 ReturnOutcome(returnToNest(a1, obs, nest, c, r, r1), fs),
                 food, nest, c, r, w, h, cfg)

-----------------------------------------------------------------------------
(* Spec: the simulation, one call of Simulation.update per frame *)

\* an obstacle of the tool's size where the user clicked
NewObstacle(p) ==
    [position |-> [x |-> p[1] * PU, y |-> p[2] * PU], radius |-> ToolObstacleSize]

\* the size of the grids of the arena
ArenaCols == CeilDiv(ArenaWidthPx * PU, Resolution)
ArenaRows == CeilDiv(ArenaHeightPx * PU, Resolution)

\* the colonies of AntColony.initialize some frames into a run: the ants where
\* their constructor puts them, all of one age
Colony ==
    {[k \in 1 .. InitialCount |->
         [NewAnt(k - 1, ds[k]) EXCEPT !.energy = age[1],
                                      !.lastDepositionTime = age[2]]] :
        ds \in [1 .. InitialCount -> AntDraws], age \in InitAges}

\* the field after clearPheromones, as the pair of the two grids
Cleared(c, r) == <<ZeroGrid(c, r), ZeroGrid(c, r)>>

\* a run some frames in, with food sources fs, one of the given colonies, one
\* of the given pairs of grids on the field, and possibly an obstacle the
\* user has placed; paused or not
InitWorld(fs, colonies, fields, paused) ==
    /\ width = ArenaWidthPx * PU
    /\ height = ArenaHeightPx * PU
    /\ cols = ArenaCols
    /\ rows = ArenaRows
    /\ \E field \in fields : toFoodGrid = field[1] /\ toNestGrid = field[2]
    /\ neighbors = NeighborTable(cols, rows)
    /\ CONFIG = [ConfigWith(DefaultEvaporation, DefaultDiffusion, InitialCount)
                    EXCEPT !.simulation.paused = paused]
    /\ ants \in colonies
    /\ antIdCounter = InitialCount
    /\ foods = fs
    /\ obstacles \in {<< >>} \cup {<<NewObstacle(p)>> : p \in ObstacleClicks}
    /\ foodStored = 0
    /\ time = 0
    /\ pc = "idle"
    /\ antIdx = 0
    /\ frames = 0
    /\ userOps = 0
    /\ last = NoLast
    /\ stepLog = << >>
    /\ spatialGrid = NewSpatialGrid(width, height, SpatialGridSize)
    /\ entities = << >>

\* the simulation with no food source yet
Init == InitWorld(<< >>, Colony, {Cleared(ArenaCols, ArenaRows)}, FALSE)

\* a Simulation.update that leaves PheromoneSystem.update out
SimulationUpdateNoTick ==
    /\ pc = "idle"
    /\ frames < MaxFrames
    /\ frames' = frames + 1
    /\ last' = [op |-> "frame", paused |-> CONFIG.simulation.paused]
    /\ IF CONFIG.simulation.paused
       THEN /\ stepLog' = << >>
            /\ UNCHANGED <<foods, pc, antIdx>>
       ELSE /\ foods' = FoodManagerUpdate(foods, CONFIG)
            /\ stepLog' = <<"food", "pheromone">>
            /\ pc' = "ants"
            /\ antIdx' = 1
    /\ UNCHANGED <<CONFIG, width, height, fieldVars, ants, antIdCounter,
                   obstacles, foodStored, time, userOps>>
    /\ UNCHANGED indexVars

\* Simulation.update(timestamp) up to the loop over the ants of
\* AntColony.update: FoodManager.update, then PheromoneSystem.update
SimulationUpdate ==
    /\ pc = "idle"
    /\ frames < MaxFrames
    /\ frames' = frames + 1
    /\ last' = [op |-> "frame", paused |-> CONFIG.simulation.paused]
    /\ IF CONFIG.simulation.paused
       THEN /\ stepLog' = << >>
            /\ UNCHANGED <<foods, toFoodGrid, toNestGrid, pc, antIdx>>
       ELSE \E next \in {PheromoneUpdate(toFoodGrid, toNestGrid, neighbors,
                                           CONFIG.pheromone)} :
                /\ foods' = FoodManagerUpdate(foods, CONFIG)
                /\ toFoodGrid' = next.f
                /\ toNestGrid' = next.n
                /\ stepLog' = <<"food", "pheromone">>
                /\ pc' = "ants"
                /\ antIdx' = 1
    /\ UNCHANGED <<CONFIG, width, height, cols, rows, neighbors, ants,
                   antIdCounter, obstacles, foodStored, time, userOps>>
    /\ UNCHANGED indexVars

\* one iteration of "for (const ant of this.ants) ant.update(simulation)"
AntStep ==
    /\ pc = "ants"
    /\ antIdx <= Len(ants)
    /\ \E r1 \in Randoms, r2 \in Randoms :
          \E u \in {AntUpdate(ants[antIdx], foods, obstacles, toFoodGrid,
                              toNestGrid, cols, rows, width, height, CONFIG,
                              r1, r2)} :
              /\ ants' = [ants EXCEPT ![antIdx] = u.ant]
              /\ foods' = u.foods
              /\ toFoodGrid' = u.f
              /\ toNestGrid' = u.n
              /\ foodStored' = foodStored + u.stored
              /\ last' = [op |-> "ant", index |-> antIdx, branch |-> u.branch,
                          pre |-> ants[antIdx], granted |-> u.granted,
                          stored |-> u.stored, preStored |-> foodStored,
                          preFoods |-> foods,
                          preFood |-> toFoodGrid, preNest |-> toNestGrid,
                          logicDirection |-> u.logicDirection,
                          fieldChanged |-> (u.f # toFoodGrid \/ u.n # toNestGrid),
                          mult |-> CONFIG.simulation.speedMultiplier]
    /\ antIdx' = antIdx + 1
    /\ stepLog' = Append(stepLog, "ant")
    /\ UNCHANGED <<CONFIG, width, height, cols, rows, neighbors, antIdCounter,
                   obstacles, time, pc, frames, userOps>>
    /\ UNCHANGED indexVars

\* a spawn test that lets a colony at maxCount grow
atMostMaxCount(count) == count <= MaxCount

\* this.ants.length < CONFIG.ant.maxCount
belowMaxCount(count) == count < MaxCount

\* an AntColony.update that stores what its dead ants carried
ColonyFinishSalvage ==
    /\ pc = "ants"
    /\ antIdx > Len(ants)
    /\ LET alive == SelectSeq(ants, LAMBDA a : a.isAlive)
           dead == SelectSeq(ants, LAMBDA a : ~a.isAlive)
           spawnChance == (SpawnRate * CONFIG.simulation.speedMultiplier) \div (4 * 60)
       IN  /\ foodStored' = foodStored
                 + SumSeq([k \in DOMAIN dead |-> dead[k].carryingFood])
           /\ \E rnd \in Randoms, d \in AntDraws :
                 IF belowMaxCount(Len(alive)) /\ rnd < spawnChance
                 THEN /\ ants' = Append(alive, NewAnt(antIdCounter, d))
                      /\ antIdCounter' = antIdCounter + 1
                 ELSE /\ ants' = alive
                      /\ antIdCounter' = antIdCounter
    /\ time' = time + CONFIG.simulation.speedMultiplier
    /\ pc' = "idle"
    /\ antIdx' = 0
    /\ last' = [op |-> "finish", preAnts |-> ants]
    /\ stepLog' = Append(stepLog, "end")
    /\ UNCHANGED <<CONFIG, width, height, fieldVars, foods, obstacles,
                   frames, userOps>>
    /\ UNCHANGED indexVars

\* the rest of AntColony.update (dead ants removed, a new ant spawned with
\* probability spawnRate * speedMultiplier / 60) and of Simulation.update
\* (time advanced by timeStep * speedMultiplier, in quarters)
ColonyFinish ==
    /\ pc = "ants"
    /\ antIdx > Len(ants)
    /\ LET alive == SelectSeq(ants, LAMBDA a : a.isAlive)
           spawnChance == (SpawnRate * CONFIG.simulation.speedMultiplier) \div (4 * 60)
       IN  \E rnd \in Randoms, d \in AntDraws :
              IF belowMaxCount(Len(alive)) /\ rnd < spawnChance
              THEN /\ ants' = Append(alive, NewAnt(antIdCounter, d))
                   /\ antIdCounter' = antIdCounter + 1
              ELSE /\ ants' = alive
                   /\ antIdCounter' = antIdCounter
    /\ time' = time + CONFIG.simulation.speedMultiplier
    /\ pc' = "idle"
    /\ antIdx' = 0
    /\ last' = [op |-> "finish", preAnts |-> ants]
    /\ stepLog' = Append(stepLog, "end")
    /\ UNCHANGED <<CONFIG, width, height, fieldVars, foods, obstacles,
                   foodStored, frames, userOps>>
    /\ UNCHANGED indexVars

\* what the user's handlers leave alone apart from the frame bookkeeping
UserStep(op) ==
    /\ pc = "idle"
    /\ userOps < MaxUserOps
    /\ userOps' = userOps + 1
    /\ last' = [op |-> op]
    /\ UNCHANGED <<pc, antIdx, frames, stepLog>>

\* the play/pause button and the space bar
TogglePause ==
    /\ UserStep("pause")
    /\ CONFIG' = [CONFIG EXCEPT !.simulation.paused = ~@]
    /\ UNCHANGED <<width, height, fieldVars, ants, antIdCounter, foods,
                   obstacles, foodStored, time>>
    /\ UNCHANGED indexVars

\* the speed buttons and the arrow keys: halve, double (within [0.25, 8]), 1
SetSpeed ==
    /\ UserStep("speed")
    /\ \E m \in {Max(1, CONFIG.simulation.speedMultiplier \div 2),
                 Min(32, CONFIG.simulation.speedMultiplier * 2), 4} :
          CONFIG' = [CONFIG EXCEPT !.simulation.speedMultiplier = m]
    /\ UNCHANGED <<width, height, fieldVars, ants, antIdCounter, foods,
                   obstacles, foodStored, time>>
    /\ UNCHANGED indexVars

\* a canvas click with the food tool: FoodManager.handleClick
ClickFood ==
    /\ UserStep("food")
    /\ \E p \in FoodClicks :
          foods' = Append(foods, NewFood(p[1] * PU, p[2] * PU, ToolFoodAmount))
    /\ UNCHANGED <<CONFIG, width, height, fieldVars, ants, antIdCounter,
                   obstacles, foodStored, time>>
    /\ UNCHANGED indexVars

\* a canvas click with the obstacle tool: ObstacleManager.handleClick
ClickObstacle ==
    /\ UserStep("obstacle")
    /\ \E p \in ObstacleClicks :
          obstacles' = Append(obstacles, NewObstacle(p))
    /\ UNCHANGED <<CONFIG, width, height, fieldVars, ants, antIdCounter,
                   foods, foodStored, time>>
    /\ UNCHANGED indexVars

\* the Clear Pheromones button: PheromoneSystem.clear
ClearPheromones ==
    /\ UserStep("clear")
    /\ toFoodGrid' = [i \in DOMAIN toFoodGrid |-> 0]
    /\ toNestGrid' = [i \in DOMAIN toNestGrid |-> 0]
    /\ UNCHANGED <<CONFIG, width, height, cols, rows, neighbors, ants,
                   antIdCounter, foods, obstacles, foodStored, time>>
    /\ UNCHANGED indexVars

\* the Population slider: CONFIG.ant.count set, missing ants added
SetPopulation ==
    /\ UserStep("population")
    /\ \E val \in {1, MaxCount} :
          /\ CONFIG' = [CONFIG EXCEPT !.ant.count = val]
          /\ LET toAdd == Max(0, val - Len(ants))
             IN  \E ds \in [1 .. toAdd -> AntDraws] :
                    /\ ants' = ants \o [k \in 1 .. toAdd |->
                                           NewAnt(antIdCounter + k - 1, ds[k])]
                    /\ antIdCounter' = antIdCounter + toAdd
    /\ UNCHANGED <<width, height, fieldVars, foods, obstacles, foodStored, time>>
    /\ UNCHANGED indexVars

\* Simulation.resize: the canvas takes a size of ResizeSizes
Resize ==
    /\ UserStep("resize")
    /\ \E size \in ResizeSizes :
          /\ width' = size[1] * PU
          /\ height' = size[2] * PU
          /\ ResizeField(size[1] * PU, size[2] * PU)
          /\ spatialGrid' = NewSpatialGrid(size[1] * PU, size[2] * PU,
                                           SpatialGridSize)
    /\ UNCHANGED <<CONFIG, ants, antIdCounter, foods, obstacles, foodStored, time,
                   entities>>

\* Simulation.reset (the reset button and the 'r' key).  In an arena of this
\* size ObstacleManager.initialize and FoodManager.initialize find no valid
\* position in their 100 attempts and leave their lists empty.
Reset ==
    /\ UserStep("reset")
    /\ foodStored' = 0
    /\ toFoodGrid' = [i \in DOMAIN toFoodGrid |-> 0]
    /\ toNestGrid' = [i \in DOMAIN toNestGrid |-> 0]
    /\ obstacles' = << >>
    /\ foods' = << >>
    /\ \E ds \in [1 .. CONFIG.ant.count -> AntDraws] :
          ants' = [k \in 1 .. CONFIG.ant.count |-> NewAnt(k - 1, ds[k])]
    /\ antIdCounter' = CONFIG.ant.count
    /\ time' = 0
    /\ UNCHANGED <<CONFIG, width, height, cols, rows, neighbors>>
    /\ UNCHANGED indexVars

Next ==
    \/ SimulationUpdate
    \/ AntStep
    \/ ColonyFinish
    \/ TogglePause
    \/ SetSpeed
    \/ ClickFood
    \/ ClickObstacle
    \/ ClearPheromones
    \/ SetPopulation
    \/ Resize
    \/ Reset

Spec == Init /\ [][Next]_vars

-----------------------------------------------------------------------------
(* SpecForage: the simulation with a food source at the nest that ants have *)
(* been collecting from                                                     *)

\* what is left of the source, in QU: nothing (depleted), 1.25 units, and all
\* but 0.025
FoodLevels == {0, (5 * QU) \div 4, ToolFoodAmount - 2}

\* a source placed with the food tool, some takes and respawns later
UsedFood(p, quantity) ==
    [NewFood(p[1] * PU, p[2] * PU, ToolFoodAmount)
        EXCEPT !.quantity = quantity, !.depleted = (quantity <= 0)]

\* where the first ant is on its way home from the source at the second food
\* click (px): between the source and the nest, level with the nest and at
\* the lower border
JourneyPositions == {<<110, 20>>, <<110, 29>>}

\* the colonies whose first ant has collected a full load and is on its way
\* home, at one of the given positions
Foragers(positions) ==
    {[c EXCEPT ![1] = [c[1] EXCEPT !.position = PointAt(p),
                                   !.state = "returning",
                                   !.carryingFood = QU]] :
        c \in Colony, p \in positions}

\* a run with a used source at the nest; in some, the first ant has taken a
\* load from a second source and is on its way home
ForageInit ==
    \E quantity \in FoodLevels :
        \/ InitWorld(<<UsedFood(<<ArenaWidthPx \div 2, ArenaHeightPx \div 2>>, quantity)>>,
                     Colony, {Cleared(ArenaCols, ArenaRows)}, FALSE)
        \/ InitWorld(<<UsedFood(<<ArenaWidthPx \div 2, ArenaHeightPx \div 2>>, quantity),
                       UsedFood(<<125, 20>>, ToolFoodAmount - QU)>>,
                     Foragers(JourneyPositions), {Cleared(ArenaCols, ArenaRows)},
                     FALSE)

SpecForage == ForageInit /\ [][Next]_vars

-----------------------------------------------------------------------------
(* SpecTrail: frames of the simulation on a field with trails, the user     *)
(* leaving it alone                                                         *)

\* what a trail holds at the left, forward and right sensor of an ant: 0 and
\* two intensities above the fade threshold
Triples ==
    LET a == 100 * Scale
        b == 200 * Scale
    IN  {<<b, a, 0>>, <<0, a, b>>, <<b, a, b>>, <<b, b, a>>, <<a, b, b>>,
         <<a, b, a>>, <<b, b, b>>, <<0, 0, 0>>}

\* the grid that holds t at the three sensor points of the ant and nothing
\* elsewhere
TrailAt(ant, t) ==
    LET at(turn) == posToIndex(ArenaCols, ArenaRows,
                        SensorPoint(ant.position, ant.direction + turn,
                                    SensorDistance))
    IN  [i \in 0 .. ArenaCols * ArenaRows - 1 |->
            IF i = at(-SensorAngle) THEN t[1]
            ELSE IF i = at(0) THEN t[2]
            ELSE IF i = at(SensorAngle) THEN t[3]
            ELSE 0]

\* a run whose field holds a trail before the first ant, the same in both
\* channels but with left and right exchanged in toNest; the first ant is
\* Searching at the nest or on its way home at (130, 22), just beyond twice
\* the nest size from the nest and not heading straight for it
TrailInit ==
    \E c \in Colony \cup Foragers({<<130, 22>>}), t \in Triples :
        InitWorld(<< >>, {c},
                  {<<TrailAt(c[1], t), TrailAt(c[1], <<t[3], t[2], t[1]>>)>>},
                  FALSE)

TrailNext ==
    \/ SimulationUpdate
    \/ AntStep
    \/ ColonyFinish

SpecTrail == TrailInit /\ [][TrailNext]_vars

-----------------------------------------------------------------------------
(* SpecPause: the simulation from a run that the user has paused *)

\* a paused run with something for every update to change: a used source that
\* would respawn, a trail that would evaporate, and ants, one of them
\* possibly on its way home
PauseInit ==
    \E c \in Colony \cup Foragers(JourneyPositions) :
        InitWorld(<<UsedFood(<<ArenaWidthPx \div 2, ArenaHeightPx \div 2>>,
                             (5 * QU) \div 4)>>,
                  {c},
                  {<<TrailAt(c[1], <<200 * Scale, 100 * Scale, 0>>),
                     TrailAt(c[1], <<0, 100 * Scale, 200 * Scale>>)>>},
                  TRUE)

SpecPause == PauseInit /\ [][Next]_vars

-----------------------------------------------------------------------------
(* SpecFade: a field that is left to PheromoneSystem.update(), called again  *)
(* and again by the draw loop, with no deposit                               *)

\* arenas of the fade runs (px): grids of 2 x 1 and 2 x 2 cells
FadeSizes == {<<10, 5>>, <<10, 10>>}

\* what a cell holds when a fade run starts: nothing, just below the
\* threshold, just above it, and a trail
FadeLevels == {0, BelowThreshold, threshold + Scale, 50 * Scale}

\* evaporation rates of the fade runs, in thousandths: the lowest of the
\* Evaporation slider and the default
FadeEvaporations == {970, DefaultEvaporation}

FadeInit ==
    /\ \E size \in FadeSizes, ev \in FadeEvaporations :
          /\ width = size[1] * PU
          /\ height = size[2] * PU
          /\ cols = CeilDiv(size[1] * PU, Resolution)
          /\ rows = CeilDiv(size[2] * PU, Resolution)
          /\ toFoodGrid \in [0 .. cols * rows - 1 -> FadeLevels]
          /\ toNestGrid = [i \in 0 .. cols * rows - 1 |->
                              toFoodGrid[cols * rows - 1 - i]]
          /\ neighbors = NeighborTable(cols, rows)
          /\ CONFIG = ConfigWith(ev, DefaultDiffusion, 0)
    /\ ants = << >>
    /\ antIdCounter = 0
    /\ foods = << >>
    /\ obstacles = << >>
    /\ foodStored = 0
    /\ time = 0
    /\ pc = "idle"
    /\ antIdx = 0
    /\ frames = 0
    /\ userOps = 0
    /\ last = NoLast
    /\ stepLog = << >>
    /\ spatialGrid = NewSpatialGrid(width, height, SpatialGridSize)
    /\ entities = << >>

\* some cell of the grid is above the fade threshold
Above(grid) == \E i \in DOMAIN grid : grid[i] > threshold

\* the next update() of the field; it remembers whether a cell was above the
\* threshold when it started
RepeatedUpdate ==
    /\ \E next \in {update(toFoodGrid, toNestGrid, neighbors, CONFIG)} :
          /\ toFoodGrid' = next.f
          /\ toNestGrid' = next.n
    /\ last' = [op |-> "update", above |-> Above(toFoodGrid) \/ Above(toNestGrid)]
    /\ UNCHANGED <<CONFIG, cols, rows, neighbors, worldVars, userOps>>

FadeNext == RepeatedUpdate

\* the draw loop calls update() in every frame
SpecFade == FadeInit /\ [][FadeNext]_vars /\ WF_vars(RepeatedUpdate)

-----------------------------------------------------------------------------
(* Properties *)

\* a point outside the area the grid covers
OutsideGrid(c, r, p) ==
    p.x < 0 \/ p.x >= c * Resolution \/ p.y < 0 \/ p.y >= r * Resolution

\* the cell that contains a point inside the grid
CellAt(c, p) == (p.y \div Resolution) * c + (p.x \div Resolution)

InRange(g) == \A i \in DOMAIN g : g[i] >= 0 /\ g[i] <= maxIntensity

\* the evaporated value e(c) of the tick contract
SnapE(g, i, eRate) ==
    IF g[i] > threshold THEN Evaporate(g[i], eRate) ELSE g[i]

\* what cell i gives to each of its neighbours
SnapShare(g, nbr, i, eRate, dRate) ==
    IF SnapE(g, i, eRate) > threshold /\ Len(nbr[i]) > 0
    THEN DiffAmount(SnapE(g, i, eRate), dRate, Len(nbr[i]))
    ELSE 0

RECURSIVE SnapInflow(_, _, _, _, _, _)
SnapInflow(g, nbr, i, k, eRate, dRate) ==
    IF k > Len(nbr[i]) THEN 0
    ELSE SnapShare(g, nbr, nbr[i][k], eRate, dRate)
         + SnapInflow(g, nbr, i, k + 1, eRate, dRate)

\* the tick computed from the pre-tick snapshot alone
SnapshotTick(g, nbr, eRate, dRate) ==
    [i \in DOMAIN g |->
        SnapE(g, i, eRate) - Len(nbr[i]) * SnapShare(g, nbr, i, eRate, dRate)
            + SnapInflow(g, nbr, i, 1, eRate, dRate)]

NoInflow(g, nbr, i, eRate, dRate) == SnapInflow(g, nbr, i, 1, eRate, dRate) = 0

FoodEvap == CONFIG.pheromone.toFood.evaporationRate
NestEvap == CONFIG.pheromone.toNest.evaporationRate
FoodDiff == CONFIG.pheromone.toFood.diffusionRate
NestDiff == CONFIG.pheromone.toNest.diffusionRate

\* C1: with evaporation rate 1 and no deposit, one update() leaves the sum of
\* the cells of each channel unchanged.
C1_ConservationUnderDiffusion ==
    (last.op = "update" /\ FoodEvap = 1000 /\ NestEvap = 1000)
        => /\ GridSum(toFoodGrid) = GridSum(last.preFood)
           /\ GridSum(toNestGrid) = GridSum(last.preNest)

\* C2: after update() every cell holds e(c) - out(c) + the inflow of its Moore
\* neighbours, all computed from the pre-tick values of the same channel.
C2_ConsistentSnapshotTick ==
    last.op = "update"
        => /\ toFoodGrid = SnapshotTick(last.preFood, neighbors, FoodEvap, FoodDiff)
           /\ toNestGrid = SnapshotTick(last.preNest, neighbors, NestEvap, NestDiff)

\* C3: every cell of both grids is within [0, maxIntensity] after any sequence
\* of deposit, update, clear and resize.
C3_FieldRange == InRange(toFoodGrid) /\ InRange(toNestGrid)

\* C4 as stated: a cell at threshold * 0.99, with evaporation rate < 1 and no
\* inflow, holds exactly 0 after one update().
C4_BelowThresholdSnapsToZero ==
    (last.op = "update" /\ FoodEvap < 1000)
        => \A i \in DOMAIN toFoodGrid :
              (last.preFood[i] = BelowThreshold
               /\ NoInflow(last.preFood, neighbors, i, FoodEvap, FoodDiff))
                  => toFoodGrid[i] = 0

\* C4 as amended: without inflow, a cell above the threshold whose evaporated
\* value falls below the threshold holds exactly 0 after update(), and a cell
\* at or below the threshold (threshold * 0.99 included) keeps its value.
SnapCase(g, new, nbr, eRate, dRate) ==
    \A i \in DOMAIN g :
        NoInflow(g, nbr, i, eRate, dRate)
            => /\ (g[i] > threshold /\ g[i] * eRate < threshold * 1000)
                      => new[i] = 0
               /\ g[i] <= threshold => new[i] = g[i]

C4_ThresholdSnapping ==
    (last.op = "update" /\ FoodEvap < 1000 /\ NestEvap < 1000)
        => /\ SnapCase(last.preFood, toFoodGrid, neighbors, FoodEvap, FoodDiff)
           /\ SnapCase(last.preNest, toNestGrid, neighbors, NestEvap, NestDiff)

\* an update() that snapped a cell to 0 and kept a cell at threshold * 0.99
C4_Witness ==
    /\ last.op = "update"
    /\ FoodEvap < 1000
    /\ NestEvap < 1000
    /\ \E i \in DOMAIN toNestGrid :
          /\ last.preNest[i] > threshold
          /\ NoInflow(last.preNest, neighbors, i, NestEvap, NestDiff)
          /\ toNestGrid[i] = 0
    /\ \E i \in DOMAIN toFoodGrid :
          /\ last.preFood[i] = BelowThreshold
          /\ NoInflow(last.preFood, neighbors, i, FoodEvap, FoodDiff)
          /\ toFoodGrid[i] = BelowThreshold

\* C5: an in-bounds deposit sets the cell that contains the position to
\* min(current + amount, maxIntensity) and changes no other cell of either grid.
DepositEffect(pre, new, c, position, amount) ==
    \A i \in DOMAIN pre :
        new[i] = IF i = CellAt(c, position)
                 THEN Min(pre[i] + amount, maxIntensity)
                 ELSE pre[i]

C5_DepositClampsOneCell ==
    (last.op = "deposit" /\ ~OutsideGrid(cols, rows, last.position))
        => IF last.channel = "toFood"
           THEN /\ DepositEffect(last.preFood, toFoodGrid, cols, last.position,
                                 last.amount)
                /\ toNestGrid = last.preNest
           ELSE /\ DepositEffect(last.preNest, toNestGrid, cols, last.position,
                                 last.amount)
                /\ toFoodGrid = last.preFood

\* a deposit into a cell that already was at maxIntensity
C5_Witness ==
    /\ last.op = "deposit"
    /\ ~OutsideGrid(cols, rows, last.position)
    /\ last.channel = "toFood"
    /\ last.preFood[CellAt(cols, last.position)] = maxIntensity
    /\ toFoodGrid[CellAt(cols, last.position)] = maxIntensity

\* C6: a deposit at a position outside the grid changes neither grid, and a
\* sensor sample point outside the grid reads 0.
SensedGrid == IF last.channel = "toFood" THEN toFoodGrid ELSE toNestGrid

SampleReads(angle, value) ==
    LET p == SensorPoint(last.position, angle, FieldSensorDistance)
    IN  IF OutsideGrid(cols, rows, p) THEN value = 0
        ELSE value = SensedGrid[CellAt(cols, p)]

C6_OutOfBoundsSilent ==
    /\ (last.op = "deposit" /\ OutsideGrid(cols, rows, last.position))
          => (toFoodGrid = last.preFood /\ toNestGrid = last.preNest)
    /\ last.op = "sense"
          => /\ SampleReads(last.angle, last.result.forward)
             /\ SampleReads(last.angle - FieldSensorAngle, last.result.left)
             /\ SampleReads(last.angle + FieldSensorAngle, last.result.right)

\* a deposit to the right of or below a grid that holds pheromone
C6_Witness ==
    /\ last.op = "deposit"
    /\ last.position.x >= 0
    /\ last.position.y >= 0
    /\ OutsideGrid(cols, rows, last.position)
    /\ \E i \in DOMAIN toFoodGrid : toFoodGrid[i] > 0

-----------------------------------------------------------------------------
(* Properties of the simulation step and of Ant.update *)

\* the ant the last AntStep updated, before and after the update
PreAnt == last.pre
PostAnt == ants[last.index]

\* what the update of the last AntStep took from the ant's energy
TickCost == (EnergyConsumption * last.mult) \div 4

\* the last AntStep got past the energy test of Ant.update
Survived == last.op = "ant" /\ PreAnt.isAlive /\ PreAnt.energy - TickCost > 0

\* the cells in which grid new differs from grid old
Changed(old, new) == {i \in DOMAIN old : new[i] # old[i]}

CollectIndex == canAntCollectFood(last.preFoods, PreAnt.position)
CollectGrant == Min(QU, last.preFoods[CollectIndex].quantity)

\* the bearing from the ant's position before the update to the nest
NestBearing ==
    Atan2(nestPosition.y - PreAnt.position.y, nestPosition.x - PreAnt.position.x)

\* the ant moved one step along heading d and kept within the bounds
MovedAlong(d) ==
    boundPosition(Move([PreAnt EXCEPT !.direction = d,
                                      !.carryingFood = PostAnt.carryingFood],
                       last.mult), width, height)

\* C8: when the update of a Searching ant finds a collectible food source and
\* take grants an amount > 0, the ant ends the update in state Returning,
\* carrying exactly the granted amount, with its heading set to the bearing
\* from its position to the nest; no steering is applied, the ant only moves
\* along that heading.
C8_CollectTransition ==
    (Survived /\ PreAnt.state = "searching" /\ CollectIndex # 0 /\ CollectGrant > 0)
        => /\ PostAnt.state = "returning"
           /\ PostAnt.carryingFood = CollectGrant
           /\ last.logicDirection = NestBearing
           /\ PostAnt.direction = MovedAlong(NestBearing).direction
           /\ PostAnt.position = MovedAlong(NestBearing).position

\* an ant away from the nest centre, heading away from the nest and within
\* the avoidance radius of an obstacle, collected
C8_Witness ==
    /\ Survived
    /\ calculateAvoidanceForce(obstacles, PreAnt.position).near
    /\ PreAnt.state = "searching"
    /\ CollectIndex # 0
    /\ CollectGrant > 0
    /\ PreAnt.position # nestPosition
    /\ PreAnt.direction # NestBearing
    /\ PostAnt.state = "returning"

\* C9: when the update of a Returning ant finds its position inside the nest
\* radius, the nest's stored food grows by exactly the carried amount, the
\* ant carries 0, is Searching and has the full energy capacity.
C9_NestArrival ==
    (Survived /\ PreAnt.state = "returning" /\ contains(PreAnt.position))
        => /\ foodStored = last.preStored + PreAnt.carryingFood
           /\ PostAnt.carryingFood = 0
           /\ PostAnt.state = "searching"
           /\ PostAnt.energy = EnergyCapacity

\* an ant below full energy arrived with food
C9_Witness ==
    /\ Survived
    /\ PreAnt.state = "returning"
    /\ contains(PreAnt.position)
    /\ PreAnt.carryingFood > 0
    /\ PreAnt.energy < EnergyCapacity
    /\ foodStored > last.preStored

\* C10 as stated, the per-tick consumption being CONFIG.ant.energyConsumption:
\* an ant at exactly that energy dies in the tick, an ant with more survives.
C10_DeathAtConfiguredConsumption ==
    (last.op = "ant" /\ PreAnt.isAlive)
        => /\ PreAnt.energy = EnergyConsumption => ~PostAnt.isAlive
           /\ PreAnt.energy > EnergyConsumption => PostAnt.isAlive

\* the ant is as before the update, but for energy and isAlive
Untouched ==
    /\ PostAnt.state = PreAnt.state
    /\ PostAnt.direction = PreAnt.direction
    /\ PostAnt.position = PreAnt.position
    /\ PostAnt.carryingFood = PreAnt.carryingFood
    /\ PostAnt.lastDepositionTime = PreAnt.lastDepositionTime

\* C10 as amended: a tick costs energyConsumption * speedMultiplier.  An ant
\* whose energy at the start of a tick is at most that cost is marked dead in
\* the tick and does nothing else in it (no state, heading or position change,
\* no deposit); an ant with more energy survives the tick; and when
\* AntColony.update has returned, no dead ant is in the colony's list.
C10_EnergyDeath ==
    /\ (last.op = "ant" /\ PreAnt.isAlive /\ PreAnt.energy <= TickCost)
          => (~PostAnt.isAlive /\ Untouched /\ ~last.fieldChanged
              /\ foods = last.preFoods /\ foodStored = last.preStored)
    /\ (last.op = "ant" /\ PreAnt.isAlive /\ PreAnt.energy > TickCost)
          => PostAnt.isAlive
    /\ pc = "idle" => \A k \in DOMAIN ants : ants[k].isAlive
    /\ last.op = "finish"
          => \A k \in DOMAIN last.preAnts :
                 ~last.preAnts[k].isAlive
                     => \A j \in DOMAIN ants : ants[j].id # last.preAnts[k].id

\* at a speed multiplier other than 1, an ant whose energy equalled the cost of
\* the tick died in it and is gone when AntColony.update has returned
C10_Witness ==
    /\ last.op = "finish"
    /\ CONFIG.simulation.speedMultiplier # 4
    /\ \E k \in DOMAIN last.preAnts :
          /\ ~last.preAnts[k].isAlive
          /\ last.preAnts[k].energy = 0
          /\ \A j \in DOMAIN ants : ants[j].id # last.preAnts[k].id

-----------------------------------------------------------------------------
(* Properties of the SpatialGrid *)

\* how often entity k is in cell i, and in all the cells
CountIn(cell, k) == Len(SelectSeq(cell, LAMBDA e : e = k))
Occurrences(k) ==
    SumUpTo([i \in DOMAIN spatialGrid.grid |-> CountIn(spatialGrid.grid[i], k)],
            spatialGrid.cols * spatialGrid.rows - 1)

\* C11: every entity is stored in at most one bucket and at most once; if
\* stored, the bucket is the one of the position it had at its last insert or
\* update and gridIndex is the index of that bucket; an entity never inserted,
\* or removed or cleared, is in no bucket.
C11_IndexMembership ==
    \A k \in DOMAIN entities :
        /\ Occurrences(k) <= 1
        /\ Occurrences(k) = 1
              => /\ entities[k].gridIndex
                        = spatialPosToIndex(spatialGrid, entities[k].position)
                 /\ entities[k].gridIndex # -1
                 /\ CountIn(spatialGrid.grid[entities[k].gridIndex], k) = 1
        /\ entities[k].called \in {"none", "remove", "clear"}
              => Occurrences(k) = 0

\* entity k is in some bucket
Stored(k) == Occurrences(k) >= 1

\* q lies within Euclidean distance radius of p
WithinRadius(p, q, radius) ==
    (p.x - q.x) * (p.x - q.x) + (p.y - q.y) * (p.y - q.y) <= radius * radius

InResult(k) == \E i \in DOMAIN last.result : last.result[i] = k

\* C12: every stored entity whose position lies within the radius of the
\* query position is in the result of queryRadius(position, radius).
C12_QueryRadiusSuperset ==
    last.op = "query"
        => \A k \in DOMAIN entities :
              (Stored(k)
               /\ WithinRadius(last.position, entities[k].position, last.radius))
                  => InResult(k)

-----------------------------------------------------------------------------
(* Properties of the constructors *)

\* C13: constructing the pheromone field with a resolution <= 0 or a negative
\* evaporation or diffusion rate, or the spatial index with a cell size <= 0,
\* fails at construction: the constructor throws and produces no object.
C13_ConfigurationValidation ==
    /\ (last.op = "PheromoneSystem"
        /\ (last.resolution <= 0 \/ last.evaporation < 0 \/ last.diffusion < 0))
          => last.threw # "none"
    /\ (last.op = "SpatialGrid" /\ last.cellSize <= 0)
          => last.threw # "none"

-----------------------------------------------------------------------------
(* Properties of food collection *)

\* the last AntStep was the update of a Searching ant that found a source
Collected ==
    Survived /\ PreAnt.state = "searching" /\ CollectIndex # 0

\* C14: take(1) grants min(1, quantity) and lowers the quantity of the source
\* by exactly the grant; the ant carries the grant, not the unit it asked
\* for; and under every interleaving of takes and respawns the quantity of
\* every source stays within [0, initialQuantity].
C14_PartialGrant ==
    /\ \A k \in DOMAIN foods :
          foods[k].quantity >= 0 /\ foods[k].quantity <= foods[k].initialQuantity
    /\ Collected
          => /\ last.granted = Min(QU, last.preFoods[CollectIndex].quantity)
             /\ foods[CollectIndex].quantity
                    = last.preFoods[CollectIndex].quantity - last.granted
             /\ PostAnt.carryingFood = last.granted

\* the second ant of a step is granted less than the unit it asked for, after
\* a respawn and the take of a full unit by the first ant
C14_Witness ==
    /\ Collected
    /\ last.index = 2
    /\ ants[1].carryingFood = QU
    /\ last.granted > 0
    /\ last.granted < QU
    /\ PostAnt.carryingFood = last.granted
    /\ foods[CollectIndex].quantity = 0
    /\ foods[CollectIndex].depleted

-----------------------------------------------------------------------------
(* Further properties of the pheromone field *)

\* no cell without inflow holds more in new than in old
NoGrowth(old, new, nbr, eRate, dRate) ==
    \A i \in DOMAIN old :
        NoInflow(old, nbr, i, eRate, dRate) => new[i] <= old[i]

\* C15: a cell of either channel whose neighbours are all at or below the
\* threshold after evaporation (no diffusion inflow) holds after update() at
\* most what it held before.
C15_EvaporationMonotone ==
    last.op = "update"
        => /\ NoGrowth(last.preFood, toFoodGrid, neighbors, FoodEvap, FoodDiff)
           /\ NoGrowth(last.preNest, toNestGrid, neighbors, NestEvap, NestDiff)

\* an update() with evaporation rate < 1 lowered a cell above the threshold
\* that had no inflow, and left a second such cell at or below the threshold
\* as it was
C15_Witness ==
    /\ last.op = "update"
    /\ FoodEvap < 1000
    /\ \E i \in DOMAIN toFoodGrid :
          /\ last.preFood[i] > threshold
          /\ NoInflow(last.preFood, neighbors, i, FoodEvap, FoodDiff)
          /\ toFoodGrid[i] < last.preFood[i]
          /\ toFoodGrid[i] > 0
    /\ \E i \in DOMAIN toFoodGrid :
          /\ last.preFood[i] = BelowThreshold
          /\ NoInflow(last.preFood, neighbors, i, FoodEvap, FoodDiff)
          /\ toFoodGrid[i] = last.preFood[i]

\* new is old moved into a grid of c x r cells: a cell (col, row) of both
\* grids keeps its value, a cell outside the old extent is 0
Migrated(old, oldCols, oldRows, new, c, r) ==
    /\ DOMAIN new = 0 .. c * r - 1
    /\ \A col \in 0 .. c - 1, row \in 0 .. r - 1 :
          new[row * c + col] = IF col < oldCols /\ row < oldRows
                               THEN old[row * oldCols + col]
                               ELSE 0

\* the cells around cell i of a grid of c x r cells
MooreNeighbours(i, c, r) ==
    {j \in 0 .. c * r - 1 :
        /\ j # i
        /\ Abs((j % c) - (i % c)) <= 1
        /\ Abs((j \div c) - (i \div c)) <= 1}

\* C16: after resize(width, height) the grid has ceil(width / resolution)
\* columns and ceil(height / resolution) rows, a cell (col, row) of the old and
\* the new grid holds its old value in each channel, a cell outside the old
\* extent is 0, the neighbour lists are those of the new dimensions, and a
\* resize to the current size changes no cell.
C16_ResizeMigration ==
    last.op = "resize"
        => /\ cols * Resolution >= width /\ (cols - 1) * Resolution < width
           /\ rows * Resolution >= height /\ (rows - 1) * Resolution < height
           /\ Migrated(last.preFood, last.preCols, last.preRows, toFoodGrid, cols, rows)
           /\ Migrated(last.preNest, last.preCols, last.preRows, toNestGrid, cols, rows)
           /\ DOMAIN neighbors = 0 .. cols * rows - 1
           /\ \A i \in DOMAIN neighbors :
                 /\ {neighbors[i][k] : k \in DOMAIN neighbors[i]}
                        = MooreNeighbours(i, cols, rows)
                 /\ Len(neighbors[i]) = Cardinality(MooreNeighbours(i, cols, rows))
           /\ (cols = last.preCols /\ rows = last.preRows)
                 => (toFoodGrid = last.preFood /\ toNestGrid = last.preNest)

\* a resize from one column to three after a deposit: the old cell (0, 1) is
\* now cell 3 and keeps its value, the old cell (0, 0) keeps the deposit, the
\* new cell (1, 0) is 0
C16_Witness ==
    /\ last.op = "resize"
    /\ last.preCols = 1
    /\ cols = 3
    /\ rows >= 2
    /\ last.preFood[1] > 0
    /\ last.preNest[0] > 0
    /\ toFoodGrid[3] = last.preFood[1]
    /\ toNestGrid[0] = last.preNest[0]
    /\ toFoodGrid[1] = 0

-----------------------------------------------------------------------------
(* Properties of the colony *)

\* C17: the colony never holds more than CONFIG.ant.maxCount ants, whatever
\* AntColony.update spawns, whoever dies and wherever the population slider
\* is moved.
C17_BoundedColony == Len(ants) <= MaxCount

\* the ants of the colony that the AntColony.update just finished has spawned
Spawned ==
    {k \in DOMAIN ants :
        \A j \in DOMAIN last.preAnts : last.preAnts[j].id # ants[k].id}

\* after ants have died and been removed, an AntColony.update spawned the ant
\* that brought the colony back to maxCount
C17_Witness ==
    /\ last.op = "finish"
    /\ Spawned # {}
    /\ Len(last.preAnts) < MaxCount
    /\ Len(ants) = MaxCount
    /\ antIdCounter > MaxCount

\* an ant as its constructor leaves it, as far as state and load go
StartsSearching(ant) == ant.state = "searching" /\ ant.carryingFood = 0

\* a live ant is Searching or Returning, and Returning exactly when it carries
StateCarry(ant) ==
    /\ ant.state \in {"searching", "returning"}
    /\ ant.state = "returning" <=> ant.carryingFood > 0

\* C19: every ant starts in Searching with carried amount 0 (the ants of
\* initialize and reset, and every ant added later: those have the ids from
\* antIdCounter on), and in every reachable state each live ant is in exactly
\* one of Searching and Returning, Returning if and only if it carries more
\* than 0.
C19_StateCarry ==
    /\ [](\A k \in DOMAIN ants : ants[k].isAlive => StateCarry(ants[k]))
    /\ [][\A k \in DOMAIN ants' :
             (ants'[k].id >= antIdCounter \/ last'.op = "reset")
                 => StartsSearching(ants'[k])]_vars

\* an ant that came home with a partial grant is Searching again and empty
C19_Witness ==
    /\ Survived
    /\ PreAnt.state = "returning"
    /\ PreAnt.carryingFood > 0
    /\ PreAnt.carryingFood < QU
    /\ contains(PreAnt.position)
    /\ PostAnt.state = "searching"
    /\ PostAnt.carryingFood = 0
    /\ \E k \in DOMAIN ants : ants[k].state = "returning" /\ ants[k].carryingFood = QU

\* the goal check of the last ant update succeeded: a Searching ant collected,
\* a Returning ant stood inside the nest radius
GoalReached ==
    IF PreAnt.state = "searching"
    THEN CollectIndex # 0 /\ CollectGrant > 0
    ELSE contains(PreAnt.position)

\* the avoidance vector the obstacles return for the ant's position before the
\* update, and the 30% / 70% blend of the old heading with its angle
PreForce == calculateAvoidanceForce(obstacles, PreAnt.position)
PreBlend == (PreAnt.direction * 3 + Atan2(PreForce.y, PreForce.x) * 7) \div 10

\* the update of the last AntStep is one C20 speaks of: the ant lived on, did
\* not reach its goal, and the obstacles returned an avoidance vector
AvoidanceCase == Survived /\ ~GoalReached /\ PreForce.near

\* C20 as stated: in a tick in which an ant did not reach its goal and the
\* obstacles return an avoidance vector, the ant's new heading is
\* 0.3 * old heading + 0.7 * away-angle.
C20_AvoidanceHeading ==
    AvoidanceCase => PostAnt.direction = PreBlend

\* C20 as amended: in such a tick the state logic takes the avoidance branch
\* and sets the heading to 0.3 * old heading + 0.7 * away-angle, whatever the
\* pheromone values, the random draws and the distance to the nest are; the
\* ant then moves one step along that heading, and the heading it ends the
\* tick with is that blend unless the step took it past the border buffer,
\* where boundPosition reflects it.
C20_AvoidancePriority ==
    AvoidanceCase
        => /\ last.branch = "avoid"
           /\ last.logicDirection = PreBlend
           /\ PostAnt.direction = MovedAlong(PreBlend).direction
           /\ PostAnt.position = MovedAlong(PreBlend).position
           /\ PostAnt.state = PreAnt.state

\* a Returning ant within twice the nest size of the nest, where the
\* close-to-nest shortcut would steer it, avoided an obstacle and ended the
\* tick with the blended heading; a Searching ant of the same colony is in
\* reach of the obstacle as well
C20_Witness ==
    /\ AvoidanceCase
    /\ PreAnt.state = "returning"
    /\ Distance(PreAnt.position, nestPosition) < NestSize * 2
    /\ last.branch = "avoid"
    /\ PostAnt.direction = PreBlend
    /\ PreBlend # PreAnt.direction
    /\ \E k \in DOMAIN ants :
          /\ ants[k].state = "searching"
          /\ ants[k].isAlive
          /\ calculateAvoidanceForce(obstacles, ants[k].position).near

-----------------------------------------------------------------------------
(* Properties of the steering *)

\* what the ant of the last AntStep sensed: the channel of its state on the
\* field as it was before the update, from its position and heading then
Sensed ==
    sensePheromone(IF PreAnt.state = "searching" THEN last.preFood
                   ELSE last.preNest,
                   cols, rows, PreAnt.position, PreAnt.direction,
                   SensorAngle, SensorDistance)

\* by how much the state logic of the last AntStep turned the ant
Turned == last.logicDirection - PreAnt.direction

LeftGreatest(s) == s.left > s.forward /\ s.left > s.right
RightGreatest(s) == s.right > s.forward /\ s.right > s.left

\* C21: an ant that follows a trail (exploitation, with the greatest of the
\* three sensor values above the fade threshold) turns left by turnSpeed
\* exactly when left is strictly greater than forward and right, turns right
\* by turnSpeed exactly when right is strictly greater than forward and left,
\* and keeps its heading in every other case; in Searching and in Returning.
C21_StrictTieBreaking ==
    (Survived /\ last.branch = "follow")
        => /\ MaxSensor(Sensed) > threshold
           /\ Turned = (IF LeftGreatest(Sensed) THEN -TurnSpeed
                        ELSE IF RightGreatest(Sensed) THEN TurnSpeed
                        ELSE 0)
           /\ PostAnt.direction = MovedAlong(PreAnt.direction + Turned).direction

\* a Returning ant that sensed left = right > forward > threshold kept its
\* heading
C21_Witness ==
    /\ Survived
    /\ last.branch = "follow"
    /\ PreAnt.state = "returning"
    /\ Sensed.left = Sensed.right
    /\ Sensed.left > Sensed.forward
    /\ Sensed.forward > threshold
    /\ Turned = 0

\* the last Ant.update done again, on a field with the grids f and n and with
\* the draws d
Again(f, n, d) ==
    AntUpdate(PreAnt, last.preFoods, obstacles, f, n, cols, rows, width,
              height, CONFIG, d[1], d[2])

\* the draws of Math.random() that the last Ant.update can have made
DrawsMade ==
    {d \in Randoms \X Randoms :
        Again(last.preFood, last.preNest, d).ant = PostAnt}

\* grids to put in the place of a channel: cleared, full, and the contents of
\* either channel before the update
OtherGrids ==
    {ZeroGrid(cols, rows), [i \in 0 .. cols * rows - 1 |-> maxIntensity],
     last.preFood, last.preNest}

\* C22: with the same draws and environment, the heading of a Searching ant
\* after its update (the one its state logic sets, and the one it ends the
\* update with) is the same on any field with the same toFood grid, whatever
\* toNest holds, and that of a Returning ant is the same on any field with
\* the same toNest grid, whatever toFood holds.
C22_ChannelDiscipline ==
    Survived =>
        \A d \in Randoms \X Randoms, g \in OtherGrids :
            \E base \in {Again(last.preFood, last.preNest, d)},
               again \in {IF PreAnt.state = "searching"
                           THEN Again(last.preFood, g, d)
                           ELSE Again(g, last.preNest, d)} :
                /\ again.ant.direction = base.ant.direction
                /\ again.logicDirection = base.logicDirection
                /\ again.branch = base.branch
                /\ d \in DrawsMade => again.ant.direction = PostAnt.direction

\* a Searching ant turned left along the toFood trail on a field whose toNest
\* grid, had the ant sensed that, would have turned it right
C22_Witness ==
    /\ Survived
    /\ PreAnt.state = "searching"
    /\ last.branch = "follow"
    /\ Turned = -TurnSpeed
    /\ RightGreatest(sensePheromone(last.preNest, cols, rows, PreAnt.position,
                                    PreAnt.direction, SensorAngle,
                                    SensorDistance))
    /\ DrawsMade # {}

-----------------------------------------------------------------------------
(* Properties of the deposits *)

\* the last AntStep was a tick on which the ant deposits: it lived on, and its
\* counter reached depositionInterval
Deposits == Survived /\ PreAnt.lastDepositionTime + 1 >= DepositionInterval

\* C23: an ant that deposits writes exactly one channel, chosen by the state
\* its transition logic left it in: a Searching ant adds the toNest strength
\* to toNest and leaves toFood alone, a Returning ant adds the toFood strength
\* times the amount it carries to toFood and leaves toNest alone; the cell is
\* the one under the ant's position after the movement and the clamping of
\* that tick, and an ant that does not deposit leaves both grids alone.
C23_DepositChannel ==
    Survived =>
        IF ~Deposits
        THEN toFoodGrid = last.preFood /\ toNestGrid = last.preNest
        ELSE IF PostAnt.state = "searching"
        THEN /\ toFoodGrid = last.preFood
             /\ toNestGrid = deposit(last.preNest, cols, rows, PostAnt.position,
                                     CONFIG.pheromone.toNest.strength * Scale)
        ELSE /\ PostAnt.state = "returning"
             /\ toNestGrid = last.preNest
             /\ toFoodGrid = deposit(last.preFood, cols, rows, PostAnt.position,
                                     (CONFIG.pheromone.toFood.strength
                                        * PostAnt.carryingFood * Scale) \div QU)

\* a Searching ant collected less than a full load and, Returning now,
\* deposited into toFood in proportion to it
C23_Witness ==
    /\ Deposits
    /\ PreAnt.state = "searching"
    /\ PostAnt.state = "returning"
    /\ PostAnt.carryingFood > 0
    /\ PostAnt.carryingFood < QU
    /\ toFoodGrid # last.preFood
    /\ toFoodGrid[posToIndex(cols, rows, PostAnt.position)]
           < CONFIG.pheromone.toFood.strength * Scale

\* the last AntStep was the update in which the ant died
Died == last.op = "ant" /\ PreAnt.isAlive /\ ~PostAnt.isAlive

\* C24: an ant deposits on every N-th update it survives, N being
\* depositionInterval = 2: its counter starts at 0 with the ant, is in
\* [0, N - 1] after every update, advances by one in an update the ant
\* survives and is back at 0 exactly when that update deposits, so that no
\* ant deposits in two updates in a row, whatever its state does; the update
\* in which the ant dies neither deposits nor advances the counter.
C24_DepositCadence ==
    /\ \A k \in DOMAIN ants :
          ants[k].lastDepositionTime \in 0 .. DepositionInterval - 1
    /\ Survived =>
          /\ PostAnt.lastDepositionTime
                = (PreAnt.lastDepositionTime + 1) % DepositionInterval
          /\ last.fieldChanged => PostAnt.lastDepositionTime = 0
          /\ PreAnt.lastDepositionTime = 0 => ~last.fieldChanged
          /\ PostAnt.lastDepositionTime = 0 =>
                 \/ toNestGrid[posToIndex(cols, rows, PostAnt.position)]
                       > last.preNest[posToIndex(cols, rows, PostAnt.position)]
                 \/ toFoodGrid[posToIndex(cols, rows, PostAnt.position)]
                       > last.preFood[posToIndex(cols, rows, PostAnt.position)]
    /\ Died =>
          /\ PostAnt.lastDepositionTime = PreAnt.lastDepositionTime
          /\ ~last.fieldChanged
    /\ (last.op = "finish" /\ Spawned # {}) =>
          \A k \in Spawned : ants[k].lastDepositionTime = 0

\* in the second frame an ant that has changed state since its last deposit
\* deposited again, after an update without a deposit
C24_Witness ==
    /\ Deposits
    /\ frames = MaxFrames
    /\ PreAnt.state = "returning"
    /\ PreAnt.lastDepositionTime = DepositionInterval - 1
    /\ PostAnt.lastDepositionTime = 0
    /\ last.fieldChanged

-----------------------------------------------------------------------------
(* Properties of the movement *)

\* where the movement step of the last AntStep took the ant, before
\* boundPosition
Stepped ==
    Move([PreAnt EXCEPT !.direction = last.logicDirection,
                        !.carryingFood = PostAnt.carryingFood], last.mult)

CrossedX ==
    Stepped.position.x < BoundBuffer \/ Stepped.position.x > width - BoundBuffer
CrossedY ==
    Stepped.position.y < BoundBuffer \/ Stepped.position.y > height - BoundBuffer

\* C25: after every update it survives, the ant is within the arena less the
\* buffer of 10: buffer <= x <= width - buffer and buffer <= y <= height -
\* buffer, at any heading and speed multiplier.  Where the movement step
\* crossed the x bound the heading is pi - heading, where it crossed the y
\* bound the heading is negated (after the x rule, if both were crossed), and
\* a coordinate whose bound was not crossed is as the movement step left it,
\* as is the heading when no bound was crossed.
C25_StaysInArena ==
    Survived =>
        /\ PostAnt.position.x >= BoundBuffer
        /\ PostAnt.position.x <= width - BoundBuffer
        /\ PostAnt.position.y >= BoundBuffer
        /\ PostAnt.position.y <= height - BoundBuffer
        /\ ~CrossedX => PostAnt.position.x = Stepped.position.x
        /\ ~CrossedY => PostAnt.position.y = Stepped.position.y
        /\ PostAnt.direction =
              (IF CrossedY THEN -1 ELSE 1)
                 * (IF CrossedX THEN Pi - last.logicDirection
                    ELSE last.logicDirection)

\* after the window was made smaller, the step of an ant crossed the x bound
\* and the y bound in one update; the ant was put back on both and its
\* heading mirrored about both axes
C25_Witness ==
    /\ Survived
    /\ CrossedX
    /\ CrossedY
    /\ PostAnt.position.x = width - BoundBuffer
    /\ PostAnt.position.y = height - BoundBuffer
    /\ PostAnt.direction = -(Pi - last.logicDirection)
    /\ PostAnt.direction # last.logicDirection

-----------------------------------------------------------------------------
(* Properties of the way home *)

\* the ant of the last AntStep was Returning outside the nest, with no
\* avoidance vector
OnTheWayHome ==
    /\ Survived
    /\ PreAnt.state = "returning"
    /\ ~contains(PreAnt.position)
    /\ ~PreForce.near

CloseToNest == Distance(PreAnt.position, nestPosition) < NestSize * 2

\* C26: a Returning ant that is not inside the nest, has no avoidance vector
\* and is closer to the nest than twice the nest size gets its heading set to
\* the bearing from its position to the nest in that tick and moves one step
\* along it; with any draws of Math.random() and any contents of the two
\* grids the heading set is the same.
C26_CloseToNestShortcut ==
    (OnTheWayHome /\ CloseToNest)
        => /\ last.branch = "close"
           /\ last.logicDirection = NestBearing
           /\ PostAnt.direction = MovedAlong(NestBearing).direction
           /\ PostAnt.position = MovedAlong(NestBearing).position
           /\ PostAnt.state = "returning"
           /\ PostAnt.carryingFood = PreAnt.carryingFood
           /\ \A d \in Randoms \X Randoms, f \in OtherGrids, n \in OtherGrids :
                 Again(f, n, d).logicDirection = NestBearing

\* a Returning ant 41 px from the nest and below it, heading along the x axis,
\* was turned to the bearing of the nest
C26_Witness ==
    /\ OnTheWayHome
    /\ CloseToNest
    /\ PreAnt.position.y # nestPosition.y
    /\ PreAnt.direction # NestBearing
    /\ Abs(angleDiff(PreAnt.direction, NestBearing)) > TurnSpeed
    /\ PostAnt.direction = NestBearing

-----------------------------------------------------------------------------
(* Properties of the choice between exploration and exploitation *)

\* the ant of the last AntStep reached the choice between exploration and
\* exploitation: no goal reached, no avoidance vector, and for a Returning
\* ant no shortcut close to the nest
ReachedChoice ==
    /\ Survived
    /\ ~GoalReached
    /\ ~PreForce.near
    /\ PreAnt.state = "returning" => ~CloseToNest

\* the perturbation of exploration for the draw r: (r - 0.5) * turnSpeed * 2
Perturbation(r) == ((r - 500) * TurnSpeed * 2) \div 1000

\* the last update with the draws d made the choice as C27 states it: a first
\* draw below explorationRate explores, any other exploits
ChoiceAsStated(d) ==
    \E again \in {Again(last.preFood, last.preNest, d)} :
        IF d[1] < ExplorationRate
        THEN /\ again.branch = "explore"
             /\ again.logicDirection = PreAnt.direction + Perturbation(d[2])
        ELSE again.branch # "explore"

\* C27 as stated: an ant that reaches the choice, Searching or Returning,
\* explores when its draw is below explorationRate, its heading perturbed by
\* a random value scaled by turnSpeed, and exploits otherwise.
C27_ExplorationInBothStates ==
    ReachedChoice => \A d \in Randoms \X Randoms : ChoiceAsStated(d)

\* what the state logic of a Returning ant that reaches the choice does with
\* the draws d: below returnHomeBias a turn toward the nest by at most
\* turnSpeed, otherwise the turn of the trail if a sensor is above the fade
\* threshold and a turn toward the nest by at most half of turnSpeed if not
ReturnChoice(d) ==
    \E again \in {Again(last.preFood, last.preNest, d)} :
        IF d[1] < ReturnHomeBias
        THEN /\ again.branch = "homing"
             /\ again.logicDirection
                   = PreAnt.direction + TurnToNest(PreAnt, NestBearing, TurnSpeed)
        ELSE IF MaxSensor(Sensed) > threshold
        THEN /\ again.branch = "follow"
             /\ again.logicDirection = PreAnt.direction + FollowTurn(Sensed)
        ELSE /\ again.branch = "homing"
             /\ again.logicDirection
                   = PreAnt.direction
                       + TurnToNest(PreAnt, NestBearing, TurnSpeed \div 2)

\* C27 as amended: a Searching ant that reaches the choice explores when its
\* first draw is below explorationRate: its heading is perturbed by
\* (second draw - 0.5) * turnSpeed * 2, the same on any field; otherwise it
\* exploits.  A Returning ant that reaches the choice never explores: its
\* draw is compared with returnHomeBias and chooses between a turn toward the
\* nest and the trail, and no random value perturbs its heading.  The update
\* that was made is the one of some pair of draws.
C27_ExplorationDraw ==
    ReachedChoice =>
        /\ \A d \in Randoms \X Randoms :
              IF PreAnt.state = "searching"
              THEN /\ ChoiceAsStated(d)
                   /\ d[1] < ExplorationRate =>
                         \A g \in OtherGrids :
                            Again(g, last.preNest, d).logicDirection
                               = PreAnt.direction + Perturbation(d[2])
              ELSE ReturnChoice(d)
        /\ \E d \in DrawsMade :
              \E again \in {Again(last.preFood, last.preNest, d)} :
                 /\ again.branch = last.branch
                 /\ again.logicDirection = last.logicDirection

\* a Returning ant beyond twice the nest size from the nest, with a trail above
\* the fade threshold before it, drew below explorationRate and was turned
\* toward the nest
C27_Witness ==
    /\ ReachedChoice
    /\ PreAnt.state = "returning"
    /\ MaxSensor(Sensed) > threshold
    /\ last.branch = "homing"
    /\ \A d \in DrawsMade : d[1] < ExplorationRate
    /\ Turned # 0

-----------------------------------------------------------------------------
(* Properties of the pause *)

\* what a pause has to leave alone: both grids, the ants with their position,
\* heading, energy, state, load and deposit counter, the population, the food
\* sources, the nest's store and the simulation time
frozenVars ==
    <<toFoodGrid, toNestGrid, ants, antIdCounter, foods, foodStored, time>>

\* in the current state PheromoneSystem.update, FoodManager.update and the
\* Ant.update of every ant, with any draws, change nothing
UpdatesIdle ==
    /\ update(toFoodGrid, toNestGrid, neighbors, CONFIG)
          = [f |-> toFoodGrid, n |-> toNestGrid]
    /\ FoodManagerUpdate(foods, CONFIG) = foods
    /\ \A k \in DOMAIN ants, d \in Randoms \X Randoms :
          \E u \in {AntUpdate(ants[k], foods, obstacles, toFoodGrid, toNestGrid,
                              cols, rows, width, height, CONFIG, d[1], d[2])} :
              /\ u.ant = ants[k]
              /\ u.f = toFoodGrid
              /\ u.n = toNestGrid
              /\ u.foods = foods
              /\ u.stored = 0

\* C28: while CONFIG.simulation.paused is true, the calls of
\* PheromoneSystem.update, FoodManager.update and Ant.update change nothing,
\* and a call of Simulation.update (with the AntColony.update in it) leaves
\* both grids, every ant, the population, every food source, the nest's
\* store and the simulation time as they are and starts no loop over the
\* ants; toggling the pause changes none of these either, so that the run
\* resumes from the state it was paused in.
C28_PauseFreezes ==
    /\ [](CONFIG.simulation.paused => UpdatesIdle)
    /\ [][(CONFIG.simulation.paused /\ frames' # frames)
             => UNCHANGED <<frozenVars, pc, antIdx>>]_vars
    /\ [][CONFIG'.simulation.paused # CONFIG.simulation.paused
             => UNCHANGED frozenVars]_vars

\* the second Simulation.update of a paused run has returned, the time still
\* 0, with a source below its initial quantity, a trail above the fade
\* threshold and live ants with energy for the next update
C28_Witness ==
    /\ CONFIG.simulation.paused
    /\ last.op = "frame"
    /\ last.paused
    /\ frames = MaxFrames
    /\ time = 0
    /\ \E k \in DOMAIN foods : foods[k].quantity < foods[k].initialQuantity
    /\ \E i \in DOMAIN toFoodGrid : toFoodGrid[i] > threshold
    /\ \E k \in DOMAIN ants :
          ants[k].isAlive /\ ants[k].energy > EnergyConsumption

-----------------------------------------------------------------------------
(* Properties of the food accounting *)

\* the nest's store plus what the live ants carry
Held ==
    foodStored
      + SumSeq([k \in DOMAIN ants |->
                   IF ants[k].isAlive THEN ants[k].carryingFood ELSE 0])

\* what is missing from the sources
Missing ==
    SumSeq([k \in DOMAIN foods |-> foods[k].initialQuantity - foods[k].quantity])

\* what the sources hold
Available == SumSeq([k \in DOMAIN foods |-> foods[k].quantity])

\* the step is the Ant.update in which a live Returning ant inside the nest
\* hands over its load
Arrival ==
    /\ last'.op = "ant"
    /\ ants[antIdx].isAlive
    /\ ants[antIdx].state = "returning"
    /\ contains(ants[antIdx].position)
    /\ ants'[antIdx].isAlive
    /\ ants'[antIdx].carryingFood = 0
    /\ foodStored' = foodStored + ants[antIdx].carryingFood

\* what Food.take grants in the step: only an Ant.update takes, and what it
\* takes leaves the source
GrantedInStep ==
    IF last'.op = "ant" THEN Available - Available' ELSE 0

\* C29: apart from a reset, the nest's store never decreases and changes
\* only in the update in which a Returning ant arrives at the nest, by exactly
\* the amount that ant carried; the store plus the loads of the live ants is
\* at most what Food.take has granted: at the start of a run it is at most
\* what is missing from the sources, and no step raises it by more than
\* Food.take grants in that step and by more than the step records as
\* granted, so that the load of an ant that dies is lost and never stored.
C29_FoodAccounting ==
    /\ Held <= Missing
    /\ [][last'.op # "reset" => foodStored' >= foodStored]_vars
    /\ [][(last'.op # "reset" /\ foodStored' # foodStored) => Arrival]_vars
    /\ [][Held' - Held <= GrantedInStep]_vars
    /\ [][last'.op = "ant" => GrantedInStep = last'.granted]_vars

\* an ant that carried a load has died in its update: the load is in no
\* live ant and not in the store, which did not change
C29_Witness ==
    /\ Died
    /\ PreAnt.carryingFood > 0
    /\ foodStored = last.preStored
    /\ Held + PreAnt.carryingFood <= Missing

-----------------------------------------------------------------------------
(* Properties of the fading field *)

\* every cell of both channels is at or below the fade threshold
Faded == ~Above(toFoodGrid) /\ ~Above(toNestGrid)

\* update() would change no cell
Quiescent ==
    update(toFoodGrid, toNestGrid, neighbors, CONFIG)
        = [f |-> toFoodGrid, n |-> toNestGrid]

\* C30: with evaporation rates below 1 and no deposit, the repeated calls of
\* PheromoneSystem.update() lead from any contents of the grids to a state in
\* which every cell of both channels is at or below the fade threshold, and
\* the field stays there; in every such state update() changes no cell.
C30_FieldQuiescence ==
    /\ <>[]Faded
    /\ [](Faded => Quiescent)

\* the update that took the last cell below the threshold has left a field
\* that is not all zero
C30_Witness ==
    /\ last.op = "update"
    /\ last.above
    /\ Faded
    /\ \E i \in DOMAIN toFoodGrid : toFoodGrid[i] > 0

=============================================================================
